---- MODULE Spec2Model ----
(***************************************************************************)
(* Half-edge mesh editing (src/src/student/meshedit.cpp): the element      *)
(* store, the local operators and the global operators built on them.     *)
(*                                                                         *)
(* A mesh is a record of link functions over element identities.  The     *)
(* element lists of the store are kept in creation order, and identities  *)
(* are handed out increasingly, so a list is the increasing enumeration   *)
(* of the identities it still holds.  Reference NIL is the unset link of  *)
(* a freshly allocated element, and the empty std::optional.              *)
(***************************************************************************)
EXTENDS Integers, Sequences, FiniteSets, TLC

VARIABLES mesh,    \* the Halfedge_Mesh
          op,      \* the last operation called
          arg,     \* the element it was called on
          ret,     \* the reference it returned, NIL for none / false
          ok,      \* the Validator's verdict on the mesh the operation left
          nops,    \* number of operations called so far
          pc,      \* position inside the running operation
          it,      \* the edge iterator e of a running global operator
          cnt,     \* its loop counter i
          bound,   \* its loop bound num_edges
          hist,    \* the mesh the running operation started from
          nlong,   \* edges found long so far by the running isotropic_remesh
          nshort,  \* edges found short so far by the running isotropic_remesh
          derefEnd, \* whether an iterator equal to end() has been dereferenced
          log,        \* the phases the running isotropic_remesh ended and the checks it ran
          edge_queue, \* the Edge_Records of a PQueue<Edge_Record>
          addr,       \* where each run's allocator stored each edge
          popped      \* the edges each run popped from its queue, in order

qvars == <<edge_queue, addr, popped>>
aux == <<log, qvars>>
vars == <<mesh, op, arg, ret, ok, nops, pc, it, cnt, bound, hist,
          nlong, nshort, derefEnd, aux>>

NIL == 0

MaxOps == 1

\* (a - b < c) in unsigned int arithmetic, for counts a, b, c far below 2^31: when
\* b > a the difference wraps to 2^32 - (b - a), which is not below c.
USubLess(a, b, c) == IF a >= b THEN a - b < c ELSE FALSE

SetMin(S) == CHOOSE x \in S : \A y \in S : x <= y
Range(s) == {s[i] : i \in 1..Len(s)}
IndexOf(s, x) == CHOOSE i \in 1..Len(s) : s[i] = x
Reverse(s) == [i \in 1..Len(s) |-> s[Len(s) + 1 - i]]

(***************************************************************************)
(* Element store                                                           *)
(***************************************************************************)
HIds(m) == DOMAIN m.nxt
VIds(m) == DOMAIN m.vh
EIds(m) == DOMAIN m.eh
FIds(m) == DOMAIN m.fh

LiveH(m) == HIds(m) \ m.herased
LiveV(m) == VIds(m) \ m.verased
LiveE(m) == EIds(m) \ m.eerased
LiveF(m) == FIds(m) \ m.ferased

\* Dereferencing: a reference that designates no element of the list reads NIL.
HNext(m, h) == IF h \in HIds(m) THEN m.nxt[h] ELSE NIL
HTwin(m, h) == IF h \in HIds(m) THEN m.twin[h] ELSE NIL
HVert(m, h) == IF h \in HIds(m) THEN m.vert[h] ELSE NIL
HEdge(m, h) == IF h \in HIds(m) THEN m.edge[h] ELSE NIL
HFace(m, h) == IF h \in HIds(m) THEN m.face[h] ELSE NIL
VHalf(m, v) == IF v \in VIds(m) THEN m.vh[v] ELSE NIL
EHalf(m, e) == IF e \in EIds(m) THEN m.eh[e] ELSE NIL
FHalf(m, f) == IF f \in FIds(m) THEN m.fh[f] ELSE NIL
IsBoundary(m, f) == IF f \in FIds(m) THEN m.fb[f] ELSE FALSE
Pos(m, v) == IF v \in VIds(m) THEN m.vpos[v] ELSE 0

\* Every traversal loop of the program is cut after Fuel(m) steps; on a mesh
\* whose cycles close no traversal is that long.
Fuel(m) == Cardinality(HIds(m)) + 1

\* Always true.  Loops test it on entry of every round so that the mesh a round
\* starts from is computed before the round is, as in the program.
Forced(m) == m.nh >= 0

RECURSIVE LastWalk(_, _, _, _)
LastWalk(m, h, hh, fuel) ==
    IF HNext(m, hh) = h \/ fuel = 0 THEN hh ELSE LastWalk(m, h, HNext(m, hh), fuel - 1)

\* get_last_halfedge(h): do hh = hh->next() while (hh->next() != h)
get_last_halfedge(m, h) == LastWalk(m, h, HNext(m, h), Fuel(m))

(***************************************************************************)
(* Statements.  An operand of a statement is an element identity, or a     *)
(* read (h->next(), h->twin(), ...) that the statement performs on the     *)
(* mesh as it is when the statement runs; reads are written NextOf(h),     *)
(* TwinOf(h), ... and are told from identities by their sign.              *)
(***************************************************************************)
ReadOf(k, x) == 0 - (x * 8 + k)
NextOf(h) == ReadOf(1, h)
TwinOf(h) == ReadOf(2, h)
VertOf(h) == ReadOf(3, h)
EdgeOf(h) == ReadOf(4, h)
FaceOf(h) == ReadOf(5, h)
LastOf(h) == ReadOf(6, h)
HalfOfVertex(v) == ReadOf(7, v)

Rd(m, o) ==
    IF o >= 0 THEN o
    ELSE LET x == (0 - o) \div 8
             k == (0 - o) % 8
         IN CASE k = 1 -> HNext(m, x)
              [] k = 2 -> HTwin(m, x)
              [] k = 3 -> HVert(m, x)
              [] k = 4 -> HEdge(m, x)
              [] k = 5 -> HFace(m, x)
              [] k = 6 -> get_last_halfedge(m, x)
              [] OTHER -> VHalf(m, x)

Upd(fn, x, val) == IF x \in DOMAIN fn THEN [fn EXCEPT ![x] = val] ELSE fn

SetNext(m, h, x) == [m EXCEPT !.nxt = Upd(@, Rd(m, h), Rd(m, x))]
SetVert(m, h, x) == [m EXCEPT !.vert = Upd(@, Rd(m, h), Rd(m, x))]
SetFace(m, h, x) == [m EXCEPT !.face = Upd(@, Rd(m, h), Rd(m, x))]
SetVHalf(m, v, h) == [m EXCEPT !.vh = Upd(@, Rd(m, v), Rd(m, h))]
SetEHalf(m, e, h) == [m EXCEPT !.eh = Upd(@, Rd(m, e), Rd(m, h))]
SetFHalf(m, f, h) == [m EXCEPT !.fh = Upd(@, Rd(m, f), Rd(m, h))]
SetPos(m, v, p) == [m EXCEPT !.vpos = Upd(@, v, p)]
SetVNew(m, v, b) == [m EXCEPT !.vnew = Upd(@, v, b)]
SetENew(m, e, b) == [m EXCEPT !.enew = Upd(@, e, b)]
SetVNewPos(m, v, p) == [m EXCEPT !.vnpos = Upd(@, v, p)]
SetENewPos(m, e, p) == [m EXCEPT !.enpos = Upd(@, e, p)]

\* h->set_neighbors(next, twin, vertex, edge, face)
SetNeighbors(m, h, n, t, v, e, f) ==
    [m EXCEPT !.nxt = Upd(@, h, Rd(m, n)), !.twin = Upd(@, h, Rd(m, t)),
              !.vert = Upd(@, h, Rd(m, v)), !.edge = Upd(@, h, Rd(m, e)),
              !.face = Upd(@, h, Rd(m, f))]

\* new_vertex / new_edge / new_face / new_halfedge: a fresh identity appended to
\* the list, every link unset.
NewVertex(m) == [m EXCEPT !.nv = @ + 1,
                          !.vh = @ @@ ((m.nv + 1) :> NIL),
                          !.vpos = @ @@ ((m.nv + 1) :> 0),
                          !.vnpos = @ @@ ((m.nv + 1) :> 0),
                          !.vnew = @ @@ ((m.nv + 1) :> FALSE)]
NewEdge(m) == [m EXCEPT !.ne = @ + 1,
                        !.eh = @ @@ ((m.ne + 1) :> NIL),
                        !.enpos = @ @@ ((m.ne + 1) :> 0),
                        !.enew = @ @@ ((m.ne + 1) :> FALSE)]
NewFace(m) == [m EXCEPT !.nf = @ + 1,
                        !.fh = @ @@ ((m.nf + 1) :> NIL),
                        !.fb = @ @@ ((m.nf + 1) :> FALSE)]
NewHalfedge(m) == [m EXCEPT !.nh = @ + 1,
                            !.nxt = @ @@ ((m.nh + 1) :> NIL),
                            !.twin = @ @@ ((m.nh + 1) :> NIL),
                            !.vert = @ @@ ((m.nh + 1) :> NIL),
                            !.edge = @ @@ ((m.nh + 1) :> NIL),
                            !.face = @ @@ ((m.nh + 1) :> NIL)]
RECURSIVE NewHalfedges(_, _)
NewHalfedges(m, k) == IF ~Forced(m) \/ k = 0 THEN m ELSE NewHalfedges(NewHalfedge(m), k - 1)
RECURSIVE NewVertices(_, _)
NewVertices(m, k) == IF ~Forced(m) \/ k = 0 THEN m ELSE NewVertices(NewVertex(m), k - 1)
RECURSIVE NewEdges(_, _)
NewEdges(m, k) == IF ~Forced(m) \/ k = 0 THEN m ELSE NewEdges(NewEdge(m), k - 1)
RECURSIVE NewFaces(_, _)
NewFaces(m, k) == IF ~Forced(m) \/ k = 0 THEN m ELSE NewFaces(NewFace(m), k - 1)

\* erase(ref): marks the element; its storage and links stay readable.
MarkV(m, v) == IF v \in VIds(m) THEN [m EXCEPT !.verased = @ \cup {v}] ELSE m
MarkE(m, e) == IF e \in EIds(m) THEN [m EXCEPT !.eerased = @ \cup {e}] ELSE m
MarkF(m, f) == IF f \in FIds(m) THEN [m EXCEPT !.ferased = @ \cup {f}] ELSE m
MarkH(m, h) == IF h \in HIds(m) THEN [m EXCEPT !.herased = @ \cup {h}] ELSE m
EraseV(m, v) == MarkV(m, Rd(m, v))
EraseE(m, e) == MarkE(m, Rd(m, e))
EraseF(m, f) == MarkF(m, Rd(m, f))
EraseH(m, h) == MarkH(m, Rd(m, h))

Restrict(fn, S) == [x \in S |-> fn[x]]

\* do_erase(): compaction, the marked elements leave the lists.
DoErase(m) ==
    [m EXCEPT !.nxt = Restrict(@, LiveH(m)), !.twin = Restrict(@, LiveH(m)),
              !.vert = Restrict(@, LiveH(m)), !.edge = Restrict(@, LiveH(m)),
              !.face = Restrict(@, LiveH(m)),
              !.vh = Restrict(@, LiveV(m)), !.vpos = Restrict(@, LiveV(m)),
              !.vnew = Restrict(@, LiveV(m)), !.vnpos = Restrict(@, LiveV(m)),
              !.eh = Restrict(@, LiveE(m)), !.enew = Restrict(@, LiveE(m)),
              !.enpos = Restrict(@, LiveE(m)),
              !.fh = Restrict(@, LiveF(m)), !.fb = Restrict(@, LiveF(m)),
              !.verased = {}, !.eerased = {}, !.ferased = {}, !.herased = {}]

\* n_vertices() ... n_faces(): live elements only.
NVertices(m) == Cardinality(LiveV(m))
NEdges(m) == Cardinality(LiveE(m))
NFaces(m) == Cardinality(LiveF(m))
NHalfedges(m) == Cardinality(LiveH(m))

(***************************************************************************)
(* Traversal helpers (meshedit.cpp:41-272)                                 *)
(***************************************************************************)
RECURSIVE FanWalk(_, _, _, _)
FanWalk(m, h0, h, fuel) ==
    IF HNext(m, HTwin(m, h)) = h0 \/ fuel = 0 THEN <<h>>
    ELSE <<h>> \o FanWalk(m, h0, HNext(m, HTwin(m, h)), fuel - 1)

\* get_outgoing_halfedges(v) without a predicate
get_outgoing_halfedges(m, v) == FanWalk(m, VHalf(m, v), VHalf(m, v), Fuel(m))

TwinVerts(m, out) == [i \in 1..Len(out) |-> HVert(m, HTwin(m, out[i]))]
\* get_neighbors(v)
get_neighbors(m, v) == TwinVerts(m, get_outgoing_halfedges(m, v))

RECURSIVE NextWalk(_, _, _, _)
NextWalk(m, h0, h, fuel) ==
    IF HNext(m, h) = h0 \/ fuel = 0 THEN <<h>>
    ELSE <<h>> \o NextWalk(m, h0, HNext(m, h), fuel - 1)

\* get_boundary_halfedges(h)
get_boundary_halfedges(m, h) == NextWalk(m, h, h, Fuel(m))

Verts(m, bd) == [i \in 1..Len(bd) |-> HVert(m, bd[i])]
\* get_vertices(f)
get_vertices(m, f) == Verts(m, get_boundary_halfedges(m, FHalf(m, f)))

Edges(m, out) == [i \in 1..Len(out) |-> HEdge(m, out[i])]
\* get_incident_edges(v)
get_incident_edges(m, v) == Edges(m, get_outgoing_halfedges(m, v))

\* get_incident_faces(e)
get_incident_faces(m, e) == <<HFace(m, EHalf(m, e)), HFace(m, HTwin(m, EHalf(m, e)))>>

\* num_edges(f); Face::degree() is the same count
num_edges(m, f) == Len(get_boundary_halfedges(m, FHalf(m, f)))

InnerCount(m, out) == Cardinality({i \in 1..Len(out) : ~IsBoundary(m, HFace(m, out[i]))})
\* Vertex::degree(): the faces around v that are not boundary faces
VertexDegree(m, v) == InnerCount(m, get_outgoing_halfedges(m, v))

TouchesBoundary(m, out) ==
    \E i \in 1..Len(out) :
        IsBoundary(m, HFace(m, out[i])) \/ IsBoundary(m, HFace(m, HTwin(m, out[i])))
\* on_boundary(VertexRef)
on_boundary_v(m, v) == TouchesBoundary(m, get_outgoing_halfedges(m, v))

\* on_boundary(EdgeRef)
on_boundary_e(m, e) ==
    IsBoundary(m, HFace(m, EHalf(m, e))) \/ IsBoundary(m, HFace(m, HTwin(m, EHalf(m, e))))

\* num_incident_edges(v)
num_incident_edges(m, v) ==
    IF on_boundary_v(m, v) THEN VertexDegree(m, v) + 1 ELSE VertexDegree(m, v)

\* Edge::center(), on the one coordinate the model keeps
Center(m, e) ==
    (Pos(m, HVert(m, EHalf(m, e))) + Pos(m, HVert(m, HTwin(m, EHalf(m, e))))) \div 2

(***************************************************************************)
(* Validator: invariants 1-6 over the live elements, and no live element  *)
(* referring to a marked one.                                              *)
(***************************************************************************)
RefsLive(m) ==
    /\ \A h \in LiveH(m) :
          /\ m.nxt[h] \in LiveH(m)
          /\ m.twin[h] \in LiveH(m)
          /\ m.vert[h] \in LiveV(m)
          /\ m.edge[h] \in LiveE(m)
          /\ m.face[h] \in LiveF(m)
    /\ \A v \in LiveV(m) : m.vh[v] \in LiveH(m)
    /\ \A e \in LiveE(m) : m.eh[e] \in LiveH(m)
    /\ \A f \in LiveF(m) : m.fh[f] \in LiveH(m)

TwinOk(m) == \A h \in LiveH(m) : m.twin[h] # h /\ m.twin[m.twin[h]] = h

NextOk(m) ==
    /\ \A h, g \in LiveH(m) : m.nxt[h] = m.nxt[g] => h = g
    /\ \A h \in LiveH(m) : m.face[m.nxt[h]] = m.face[h]

FanOk(m) == \A h \in LiveH(m) : m.vert[m.nxt[m.twin[h]]] = m.vert[h]

EdgeOk(m) ==
    /\ \A h \in LiveH(m) : m.edge[m.twin[h]] = m.edge[h]
    /\ \A e \in LiveE(m) :
          {h \in LiveH(m) : m.edge[h] = e} = {m.eh[e], m.twin[m.eh[e]]}

RepOk(m) ==
    /\ \A v \in LiveV(m) : m.vert[m.vh[v]] = v
    /\ \A e \in LiveE(m) : m.edge[m.eh[e]] = e
    /\ \A f \in LiveF(m) : m.face[m.fh[f]] = f
    /\ \A h \in LiveH(m) :
          /\ h \in Range(get_outgoing_halfedges(m, m.vert[h]))
          /\ h \in Range(get_boundary_halfedges(m, m.fh[m.face[h]]))

\* validate() = "ok"
Valid(m) == RefsLive(m) /\ TwinOk(m) /\ NextOk(m) /\ FanOk(m) /\ EdgeOk(m) /\ RepOk(m)

\* validate(): the Validator, then compaction when it reports ok
Validate(m) == IF Valid(m) THEN DoErase(m) ELSE m


(***************************************************************************)
(* Local operators.  Each yields the mesh it leaves and the reference it   *)
(* returns (NIL for std::nullopt).                                         *)
(***************************************************************************)
(* Local operators.  Each yields the mesh it leaves and the reference it   *)
(* returns (NIL for std::nullopt).                                         *)
(***************************************************************************)
Result(m, r) == [m |-> m, ret |-> r]

RECURSIVE FoldSeq(_, _, _, _)
FoldSeq(Step(_, _), m, s, i) ==
    IF ~Forced(m) \/ i > Len(s) THEN m ELSE FoldSeq(Step, Step(m, s[i]), s, i + 1)

\* erase_vertex, the relinking of one outgoing half-edge (lines 295-303)
EraseVertexRelink(m, h) ==
    SetNext(SetVHalf(m, VertOf(HTwin(m, h)), HNext(m, h)), LastOf(HTwin(m, h)), HNext(m, h))

\* erase_vertex, the erasures for one outgoing half-edge (lines 312-317)
EraseVertexErase(m, h) ==
    EraseH(EraseH(EraseF(EraseE(m, EdgeOf(h)), FaceOf(h)), TwinOf(h)), h)

\* erase_vertex, lines 304-311: the merged face takes over the remaining cycle
EraseVertexFace(m, face, bdry) ==
    LET SetF(mm, h) == SetFace(mm, h, face)
    IN SetFHalf(FoldSeq(SetF, m, bdry, 1), face, bdry[1])

\* erase_vertex, lines 304-319
EraseVertexFinish(m, v, face, outgoing) ==
    LET m3 == EraseVertexFace(m, face, get_boundary_halfedges(m, HNext(m, outgoing[1])))
    IN Result(FoldSeq(EraseVertexErase, EraseV(m3, v), outgoing, 1), face)

AnyBelow3(m, neighbors) ==
    \E i \in 1..Len(neighbors) : num_incident_edges(m, neighbors[i]) < 3

\* a variant of erase_vertex without the boundary test of line 286
erase_vertex_NoBoundaryTest(m, v) ==
    IF AnyBelow3(m, get_neighbors(m, v)) THEN Result(m, NIL)
    ELSE EraseVertexFinish(
             FoldSeq(EraseVertexRelink, NewFace(m), get_outgoing_halfedges(m, v), 1),
             v, m.nf + 1, get_outgoing_halfedges(m, v))

\* Halfedge_Mesh::erase_vertex
erase_vertex(m, v) ==
    IF on_boundary_v(m, v) THEN Result(m, NIL)
    ELSE IF AnyBelow3(m, get_neighbors(m, v)) THEN Result(m, NIL)
    ELSE EraseVertexFinish(
             FoldSeq(EraseVertexRelink, NewFace(m), get_outgoing_halfedges(m, v), 1),
             v, m.nf + 1, get_outgoing_halfedges(m, v))

\* erase_edge, the loop "for(h = h00; h != h11; h = h->next()) h->face() = face"
RECURSIVE EraseEdgeFaces(_, _, _, _, _)
EraseEdgeFaces(m, h, h11, face, fuel) ==
    IF ~Forced(m) \/ h = h11 \/ fuel = 0 THEN m
    ELSE EraseEdgeFaces(SetFace(m, h, face), HNext(m, h), h11, face, fuel - 1)

\* erase_edge, lines 331-345: the rejections
EraseEdgeRejects(m, e) ==
    LET Few(v) == IF on_boundary_v(m, v) THEN VertexDegree(m, v) <= 1
                  ELSE VertexDegree(m, v) <= 2
    IN \/ on_boundary_e(m, e)
       \/ Few(HVert(m, EHalf(m, e)))
       \/ Few(HVert(m, HTwin(m, EHalf(m, e))))

\* erase_edge, lines 347-372: the two faces of e become one
EraseEdgeMerge(m, e) ==
    LET h0 == EHalf(m, e)
        h1 == HTwin(m, h0)
        face == m.nf + 1
        h00 == HNext(m, h0)
        h10 == HNext(m, h1)
        h01 == get_last_halfedge(m, h0)
        h11 == get_last_halfedge(m, h1)
        m1 == NewFace(m)
        m2 == SetNeighbors(m1, h01, h10, TwinOf(h01), VertOf(h01), EdgeOf(h01), face)
        m3 == SetNeighbors(m2, h11, h00, TwinOf(h11), VertOf(h11), EdgeOf(h11), face)
        m4 == EraseEdgeFaces(m3, h00, h11, face, Fuel(m))
        m5 == SetVHalf(m4, VertOf(h0), h10)
        m6 == SetVHalf(m5, VertOf(h1), h00)
        m7 == SetFHalf(m6, face, h00)
        m8 == EraseE(m7, e)
        m9 == EraseF(m8, FaceOf(h0))
        m10 == EraseF(m9, FaceOf(h1))
        m11 == EraseH(EraseH(m10, h0), h1)
    IN Result(m11, face)

\* a variant of erase_edge that merges the faces before it decides to reject
erase_edge_MergeFirst(m, e) ==
    IF EraseEdgeRejects(m, e) THEN Result(EraseEdgeMerge(m, e).m, NIL)
    ELSE EraseEdgeMerge(m, e)

\* a variant of erase_edge without the tests on the two ends of the edge
erase_edge_NoEndTest(m, e) ==
    IF on_boundary_e(m, e) THEN Result(m, NIL) ELSE EraseEdgeMerge(m, e)

\* Halfedge_Mesh::erase_edge
erase_edge(m, e) ==
    IF EraseEdgeRejects(m, e) THEN Result(m, NIL) ELSE EraseEdgeMerge(m, e)

\* a variant of flip_edge that moves one end of the edge only
flip_edge_OneEnd(m, e) ==
    Result(SetVert(m, EHalf(m, e), HVert(m, HTwin(m, HNext(m, EHalf(m, e))))), e)

\* Halfedge_Mesh::flip_edge
flip_edge(m, e) ==
    LET h1 == EHalf(m, e)
        h2 == HNext(m, h1)
        h0 == get_last_halfedge(m, h1)
        h3 == HTwin(m, h1)
        h4 == HNext(m, h3)
        h5 == get_last_halfedge(m, h3)
        v0 == HVert(m, HTwin(m, h2))
        v1 == HVert(m, h1)
        v2 == HVert(m, HTwin(m, h4))
        v3 == HVert(m, h3)
        f0 == HFace(m, h1)
        f1 == HFace(m, h3)
        m1 == SetVHalf(SetVHalf(SetVHalf(SetVHalf(m, v0, h3), v1, h4), v2, h1), v3, h2)
        m2 == SetFHalf(SetFHalf(m1, f0, h1), f1, h3)
        m3 == SetNeighbors(m2, h0, h4, TwinOf(h0), VertOf(h0), EdgeOf(h0), f0)
        m4 == SetNeighbors(m3, h1, NextOf(h2), h3, v2, EdgeOf(h1), f0)
        m5 == SetNeighbors(m4, h2, h3, TwinOf(h2), VertOf(h2), EdgeOf(h2), f1)
        m6 == SetNeighbors(m5, h3, NextOf(h4), h1, v0, EdgeOf(h3), f1)
        m7 == SetNeighbors(m6, h4, h1, TwinOf(h4), VertOf(h4), EdgeOf(h4), f0)
        m8 == SetNeighbors(m7, h5, h2, TwinOf(h5), VertOf(h5), EdgeOf(h5), f1)
    IN Result(m8, e)

\* a variant of split_edge that places the new vertex on the edge and links nothing
split_edge_VertexOnly(m, e) ==
    Result(SetVHalf(SetPos(NewVertex(m), m.nv + 1, Center(m, e)), m.nv + 1, EHalf(m, e)),
           m.nv + 1)

\* a variant of split_edge whose new vertex is represented by a half-edge of a
\* new edge
split_edge_NewEdgeRep(m, e) ==
    Result(SetVHalf(SetNeighbors(NewHalfedges(NewEdges(NewVertex(m), 1), 1), m.nh + 1,
                                 m.nh + 1, m.nh + 1, m.nv + 1, m.ne + 1,
                                 HFace(m, EHalf(m, e))),
                    m.nv + 1, m.nh + 1),
           m.nv + 1)

\* Halfedge_Mesh::split_edge
split_edge(m, e) ==
    LET v == m.nv + 1
        e0 == e
        e1 == m.ne + 1
        e2 == m.ne + 2
        e3 == m.ne + 3
        f0 == HFace(m, EHalf(m, e))
        f1 == HFace(m, HTwin(m, EHalf(m, e)))
        f2 == m.nf + 1
        f3 == m.nf + 2
        h0 == EHalf(m, e)
        h1 == HNext(m, h0)
        h2 == get_last_halfedge(m, h0)
        h3 == HTwin(m, h0)
        h4 == HNext(m, h3)
        h5 == get_last_halfedge(m, h3)
        h6 == m.nh + 1
        h7 == m.nh + 2
        h8 == m.nh + 3
        h9 == m.nh + 4
        h10 == m.nh + 5
        h11 == m.nh + 6
        v0 == HVert(m, h0)
        v1 == HVert(m, h5)
        v2 == HVert(m, h1)
        v3 == HVert(m, h2)
        ma == SetPos(NewVertex(m), v, Center(m, e))
        mb == NewHalfedges(NewFaces(NewEdges(ma, 3), 2), 6)
        m1 == SetVHalf(SetVHalf(SetVHalf(SetVHalf(SetVHalf(mb, v, h0), v0, h7), v1, h5),
                                v2, h1), v3, h2)
        m2 == SetEHalf(SetEHalf(SetEHalf(SetEHalf(m1, e0, h0), e1, h8), e2, h10), e3, h11)
        m3 == SetFHalf(SetFHalf(SetFHalf(SetFHalf(m2, f0, h0), f1, h3), f2, h7), f3, h10)
        m4 == SetNeighbors(m3, h0, h1, h3, v, e0, f0)
        m5 == SetNeighbors(m4, h1, h6, TwinOf(h1), v2, EdgeOf(h1), f0)
        m6 == SetNeighbors(m5, h2, h7, TwinOf(h2), v3, EdgeOf(h2), f2)
        m7 == SetNeighbors(m6, h3, h11, h0, v2, e0, f1)
        m8 == SetNeighbors(m7, h4, h9, TwinOf(h4), v0, EdgeOf(h4), f3)
        m9 == SetNeighbors(m8, h5, h3, TwinOf(h5), v1, EdgeOf(h5), f1)
        m10 == SetNeighbors(m9, h6, h0, h8, v3, e1, f0)
        m11 == SetNeighbors(m10, h7, h8, h10, v0, e2, f2)
        m12 == SetNeighbors(m11, h8, h2, h6, v, e1, f2)
        m13 == SetNeighbors(m12, h9, h10, h11, v1, e3, f3)
        m14 == SetNeighbors(m13, h10, h4, h7, v, e2, f3)
        m15 == SetNeighbors(m14, h11, h5, h9, v, e3, f1)
    IN Result(m15, v)

\* collapse_half(h, m), the triangle case (lines 383-401)
CollapseHalfTriangle(m, h, h0, h1) ==
    LET v0 == m.nv + 1
        e0 == m.ne + 1
        g0 == HTwin(m, h1)
        g1 == HTwin(m, h0)
        v1 == HVert(m, g1)
        ma == NewVertex(m)
        mb == EraseH(EraseH(EraseH(ma, h), h0), h1)
        mc == EraseF(EraseE(EraseE(mb, EdgeOf(h0)), EdgeOf(h1)), FaceOf(h0))
        md == NewEdge(mc)
        me == SetEHalf(SetVHalf(SetVHalf(md, v0, g0), v1, g1), e0, g0)
        mf == SetNeighbors(me, g0, NextOf(g0), g1, v0, e0, FaceOf(g0))
        mg == SetNeighbors(mf, g1, NextOf(g1), g0, v1, e0, FaceOf(g1))
    IN Result(mg, v0)

\* collapse_half(h, m), the other case (lines 403-409)
CollapseHalfPolygon(m, h, h0, h1) ==
    LET v0 == m.nv + 1
        f0 == HFace(m, h)
        ma == NewVertex(m)
        mb == SetFHalf(SetVHalf(ma, v0, h0), f0, h0)
        mc == SetNext(SetVert(mb, h0, v0), h1, h0)
    IN Result(EraseH(mc, h), v0)

\* collapse_half(h, m)
collapse_half(m, h) ==
    IF num_edges(m, HFace(m, h)) = 3
    THEN CollapseHalfTriangle(m, h, HNext(m, h), get_last_halfedge(m, h))
    ELSE CollapseHalfPolygon(m, h, HNext(m, h), get_last_halfedge(m, h))

\* collapse_edge, lines 450-453: the far side of an interior edge
CollapseEdgeTwin(m, v, h) == collapse_half(EraseV(m, v), HTwin(m, h))
CollapseEdgeRevertex(r1, rb) == Result(SetVert(rb.m, VHalf(r1.m, r1.ret), rb.ret), rb.ret)
CollapseEdgeInterior(r1, h) == CollapseEdgeRevertex(r1, CollapseEdgeTwin(r1.m, r1.ret, h))

\* collapse_edge, line 456: the far side of a boundary edge
CollapseEdgeBoundary(r1, h) ==
    Result(SetNext(r1.m, LastOf(HTwin(r1.m, h)), NextOf(HTwin(r1.m, h))), r1.ret)

\* collapse_edge, lines 460-476
CollapseEdgeFinish(r2, e, h, v0, v1, outgoing0, outgoing1, p) ==
    LET SetV(mm, hh) == SetVert(mm, hh, r2.ret)
        m3 == FoldSeq(SetV, FoldSeq(SetV, r2.m, outgoing0, 1), outgoing1, 1)
        m4 == SetPos(m3, r2.ret, p)
        m5 == EraseE(EraseV(EraseV(m4, v0), v1), e)
        m6 == EraseH(EraseH(m5, h), TwinOf(h))
    IN Result(m6, r2.ret)

\* collapse_edge, lines 426-444: the rejections
CollapseEdgeRejects(m, h, v0, v1, on_bdry) ==
    LET tri0 == num_edges(m, HFace(m, h)) = 3
        tri1 == ~on_bdry /\ num_edges(m, HFace(m, HTwin(m, h))) = 3
        num_triangles == (IF tri0 THEN 1 ELSE 0) + (IF tri1 THEN 1 ELSE 0)
        common_neighbors ==
            (IF tri0 THEN <<HVert(m, HNext(m, HNext(m, h)))>> ELSE << >>) \o
            (IF tri1 THEN <<HVert(m, HNext(m, HNext(m, HTwin(m, h))))>> ELSE << >>)
    IN \/ /\ num_triangles = 1
          /\ \/ USubLess(num_incident_edges(m, v0) + num_incident_edges(m, v1), 3, 2)
             \/ USubLess(num_incident_edges(m, common_neighbors[1]), 1, 2)
       \/ /\ num_triangles = 2
          /\ \E i \in 1..Len(common_neighbors) :
                USubLess(num_incident_edges(m, common_neighbors[i]), 1, 2)

\* a variant of collapse_edge that treats every edge as it treats a boundary
\* edge: only the side of h is collapsed
collapse_edge_OneSide(m, e) ==
    LET h == IF IsBoundary(m, HFace(m, EHalf(m, e))) THEN HTwin(m, EHalf(m, e))
             ELSE EHalf(m, e)
        v0 == HVert(m, h)
        v1 == HVert(m, HTwin(m, h))
    IN IF CollapseEdgeRejects(m, h, v0, v1, on_boundary_e(m, e)) THEN Result(m, NIL)
       ELSE CollapseEdgeFinish(CollapseEdgeBoundary(collapse_half(m, h), h),
                e, h, v0, v1, get_outgoing_halfedges(m, v0), get_outgoing_halfedges(m, v1),
                Center(m, e))

\* Halfedge_Mesh::collapse_edge
collapse_edge(m, e) ==
    LET h == IF IsBoundary(m, HFace(m, EHalf(m, e))) THEN HTwin(m, EHalf(m, e))
             ELSE EHalf(m, e)
        v0 == HVert(m, h)
        v1 == HVert(m, HTwin(m, h))
    IN IF CollapseEdgeRejects(m, h, v0, v1, on_boundary_e(m, e)) THEN Result(m, NIL)
       ELSE CollapseEdgeFinish(
                IF ~on_boundary_e(m, e) THEN CollapseEdgeInterior(collapse_half(m, h), h)
                ELSE CollapseEdgeBoundary(collapse_half(m, h), h),
                e, h, v0, v1, get_outgoing_halfedges(m, v0), get_outgoing_halfedges(m, v1),
                Center(m, e))

\* get_outgoing_halfedges(v, pred): the outgoing half-edges not in skip
OutgoingExcept(m, v, skip) ==
    LET Keep(h) == h \notin skip
    IN SelectSeq(get_outgoing_halfedges(m, v), Keep)

\* merge(h0, m): merges the two vertices delimiting the edge of h0
merge_vertices(m, h0) ==
    LET h1 == HTwin(m, h0)
        e0 == HEdge(m, h0)
        v0 == HVert(m, h0)
        v1 == HVert(m, h1)
        v == m.nv + 1
        SetH(mm, h) == SetVHalf(mm, v, h)
        mb == FoldSeq(SetH, FoldSeq(SetH, NewVertex(m), OutgoingExcept(m, v0, {h0}), 1),
                      OutgoingExcept(m, v1, {h1}), 1)
        mc == EraseH(EraseH(EraseE(EraseV(EraseV(mb, v0), v1), e0), h0), h1)
    IN Result(mc, v)

First(s) == IF Len(s) > 0 THEN s[1] ELSE NIL

\* merge(h0, h1, m): h0 points outward from the common vertex, h1 toward it
merge_edges(m, a0, a1) ==
    LET h0 == HTwin(m, a0)
        h1 == HTwin(m, a1)
        h2 == HTwin(m, h0)
        h3 == HTwin(m, h1)
        h4 == HNext(m, h2)
        h5 == HTwin(m, h4)
        v0 == HVert(m, h0)
        v1 == HVert(m, h3)
        v2 == HVert(m, h1)
        e0 == HEdge(m, h4)
        e1 == HEdge(m, h1)
        e2 == HEdge(m, h0)
        f0 == HFace(m, h2)
        v == m.nv + 1
        e == m.ne + 1
        SetV(mm, h) == SetVert(mm, h, v)
        mb == SetVHalf(NewVertex(m), v, h0)
        mc == FoldSeq(SetV, FoldSeq(SetV, mb, OutgoingExcept(m, v0, {h4}), 1),
                      OutgoingExcept(m, v1, {h5, h3}), 1)
        md == SetVHalf(mc, v2, First(OutgoingExcept(m, v2, {h2})))
        mf == SetEHalf(NewEdge(md), e, h0)
        mg == SetNeighbors(mf, h0, NextOf(h0), h1, v, e, FaceOf(h0))
        mh == SetNeighbors(mg, h1, NextOf(h1), h0, v2, e, FaceOf(h1))
        mi == SetNext(mh, LastOf(h5), NextOf(h5))
        mj == EraseF(EraseE(EraseE(EraseE(EraseV(EraseV(mi, v0), v1), e0), e1), e2), f0)
        mk == EraseH(EraseH(EraseH(EraseH(mj, h2), h3), h4), h5)
    IN Result(mk, v)

\* collapse_side, line 494: m.validate()
ThenValidate(r) == Result(Validate(r.m), r.ret)

\* collapse_side(h, m): h is the outside half-edge of the side being collapsed
collapse_side(m, h) ==
    ThenValidate(IF num_edges(m, HFace(m, h)) = 3
                 THEN merge_edges(m, get_last_halfedge(m, h), HNext(m, h))
                 ELSE merge_vertices(m, h))

\* collapse_face, the loop of lines 531-533
RECURSIVE CollapseSides(_, _, _)
CollapseSides(r, bdry, i) ==
    IF ~Forced(r.m) \/ i > Len(bdry) THEN r
    ELSE CollapseSides(collapse_side(r.m, HTwin(r.m, bdry[i])), bdry, i + 1)

RECURSIVE ConcatAll(_, _)
ConcatAll(ss, i) == IF i > Len(ss) THEN << >> ELSE ss[i] \o ConcatAll(ss, i + 1)

\* collapse_face, lines 510-514
CollapseFaceThin(m, bdry) ==
    \E i \in 1..Len(bdry) :
        /\ ~on_boundary_e(m, HEdge(m, bdry[i]))
        /\ num_edges(m, HFace(m, HTwin(m, bdry[i]))) = 3
        /\ num_incident_edges(m, HVert(m, HNext(m, HNext(m, HTwin(m, bdry[i]))))) < 3

\* collapse_face, lines 515-527
CollapseFaceOutgoing(m, f, bdry) ==
    LET Away(hh) == HFace(m, hh) # f /\ HFace(m, HTwin(m, hh)) # f
    IN ConcatAll([i \in 1..Len(bdry) |->
                     SelectSeq(get_outgoing_halfedges(m, HVert(m, bdry[i])), Away)], 1)

CollapseFaceErase(r, f) == Result(EraseF(r.m, f), r.ret)

CollapseFaceFrom(m, f, bdry) ==
    IF CollapseFaceThin(m, bdry) \/ Len(CollapseFaceOutgoing(m, f, bdry)) < 2
    THEN Result(m, NIL)
    ELSE CollapseFaceErase(CollapseSides(Result(m, NIL), bdry, 1), f)

\* Halfedge_Mesh::collapse_face
collapse_face(m, f) == CollapseFaceFrom(m, f, get_boundary_halfedges(m, FHalf(m, f)))

\* the closing loop of the three bevels: v0->halfedge()->next() = v1->halfedge()
RECURSIVE BevelRing(_, _, _, _)
BevelRing(m, first, n, i) ==
    IF ~Forced(m) \/ i >= n THEN m
    ELSE BevelRing(SetNext(m, HalfOfVertex(first + i), HalfOfVertex(first + ((i + 1) % n))),
                   first, n, i + 1)

\* bevel_vertex: one round of the loop of lines 722-739
RECURSIVE BevelVertexLoop(_, _, _, _, _, _)
BevelVertexLoop(m, v, out, first, f, i) ==
    IF ~Forced(m) \/ i >= Len(out) THEN m
    ELSE LET v0 == first + i
             v1 == first + ((i + 1) % Len(out))
             h0 == out[i + 1]
             e0 == m.ne + 1
             h1 == m.nh + 1
             h2 == m.nh + 2
             h3 == get_last_halfedge(m, h0)
             mb == NewHalfedges(NewEdge(SetPos(m, v0, Pos(m, v))), 2)
             mc == SetVert(SetEHalf(SetVHalf(mb, v0, h1), e0, h1), h0, v0)
             md == SetNeighbors(mc, h1, h1, h2, v0, e0, f)
             me == SetNeighbors(md, h2, h0, h1, v1, e0, FaceOf(h0))
             mf == SetFHalf(SetNext(me, h3, h2), f, h1)
         IN BevelVertexLoop(mf, v, out, first, f, i + 1)

BevelVertexFrom(m, v, out) ==
    LET first == m.nv + 1
        f == m.nf + 1
        mb == BevelVertexLoop(NewFace(NewVertices(m, Len(out))), v, out, first, f, 0)
    IN Result(EraseV(BevelRing(mb, first, Len(out), 0), v), f)

\* Halfedge_Mesh::bevel_vertex
bevel_vertex(m, v) == BevelVertexFrom(m, v, Reverse(get_outgoing_halfedges(m, v)))

\* get_incident_halfedges(e), the reordering of one endpoint's fan
Reorder(hs, h) ==
    LET k == IndexOf(hs, h)
        n == Len(hs)
    IN [j \in 1..(n - 1) |-> hs[((k - 1 + n - j) % n) + 1]]

\* get_incident_halfedges(e)
get_incident_halfedges(m, e) ==
    Reorder(get_outgoing_halfedges(m, HVert(m, EHalf(m, e))), EHalf(m, e)) \o
    Reorder(get_outgoing_halfedges(m, HVert(m, HTwin(m, EHalf(m, e)))), HTwin(m, EHalf(m, e)))

RECURSIVE BevelEdgePos(_, _, _, _, _, _, _)
BevelEdgePos(m, first, n, n0, endpt0, endpt1, i) ==
    IF ~Forced(m) \/ i >= n THEN m
    ELSE BevelEdgePos(SetPos(m, first + i, Pos(m, IF i < n0 THEN endpt0 ELSE endpt1)),
                      first, n, n0, endpt0, endpt1, i + 1)

\* bevel_edge: one round of the loop of lines 781-799
RECURSIVE BevelEdgeLoop(_, _, _, _, _)
BevelEdgeLoop(m, inc, first, f, i) ==
    IF ~Forced(m) \/ i >= Len(inc) THEN m
    ELSE LET v0 == first + i
             v1 == first + ((i + 1) % Len(inc))
             e0 == m.ne + 1
             h0 == inc[i + 1]
             h1 == m.nh + 1
             h2 == m.nh + 2
             h3 == HTwin(m, inc[((i + 1) % Len(inc)) + 1])
             f0 == HFace(m, h0)
             ma == NewHalfedges(NewEdge(m), 2)
             mb == SetFHalf(SetFHalf(SetEHalf(SetVHalf(ma, v0, h1), e0, h1), f, h1),
                            f0, h0)
             mc == SetVert(mb, h0, v0)
             md == SetNeighbors(mc, h1, h1, h2, v0, e0, f)
             me == SetNeighbors(md, h2, h0, h1, v1, e0, f0)
         IN BevelEdgeLoop(SetNext(me, h3, h2), inc, first, f, i + 1)

BevelEdgeFrom(m, e, inc) ==
    LET endpt0 == HVert(m, EHalf(m, e))
        endpt1 == HVert(m, HTwin(m, EHalf(m, e)))
        n0 == num_incident_edges(m, endpt0) - 1
        first == m.nv + 1
        f == m.nf + 1
        mb == BevelEdgePos(NewFace(NewVertices(m, Len(inc))), first, Len(inc), n0,
                           endpt0, endpt1, 0)
        md == BevelRing(BevelEdgeLoop(mb, inc, first, f, 0), first, Len(inc), 0)
        mg == EraseE(EraseV(EraseV(md, VertOf(EHalf(m, e))), VertOf(HTwin(m, EHalf(m, e)))), e)
    IN Result(EraseH(EraseH(mg, EHalf(m, e)), HTwin(m, EHalf(m, e))), f)

\* Halfedge_Mesh::bevel_edge
bevel_edge(m, e) == BevelEdgeFrom(m, e, get_incident_halfedges(m, e))

RECURSIVE BevelFacePos(_, _, _, _)
BevelFacePos(m, verts, first, i) ==
    IF ~Forced(m) \/ i >= Len(verts) THEN m
    ELSE BevelFacePos(SetPos(m, first + i, Pos(m, verts[i + 1])), verts, first, i + 1)

\* bevel_face: one round of the loop of lines 841-865
RECURSIVE BevelFaceLoop(_, _, _, _, _, _)
BevelFaceLoop(m, bdry, verts, first, f0, i) ==
    IF ~Forced(m) \/ i >= Len(verts) THEN m
    ELSE LET v0 == first + i
             v1 == verts[i + 1]
             v2 == first + ((i + 1) % Len(verts))
             e0 == m.ne + 1
             e1 == m.ne + 2
             f1 == m.nf + 1
             h0 == m.nh + 1
             h1 == m.nh + 2
             h2 == m.nh + 3
             h3 == m.nh + 4
             h4 == bdry[i + 1]
             ma == NewHalfedges(NewFace(NewEdges(m, 2)), 4)
             mb == SetEHalf(SetEHalf(SetVHalf(SetVHalf(ma, v0, h0), v1, h4), e0, h0),
                            e1, h3)
             mc == SetFHalf(SetFHalf(mb, f0, h0), f1, h1)
             md == SetNeighbors(mc, h0, h0, h1, v0, e0, f0)
             me == SetNeighbors(md, h1, h2, h0, v2, e0, f1)
             mf == SetNeighbors(me, h2, h4, h3, v0, e1, f1)
             mg == SetNeighbors(mf, h3, h3, h2, v1, e1, f0)
             mh == SetNeighbors(mg, h4, h4, TwinOf(h4), v1, EdgeOf(h4), f1)
         IN BevelFaceLoop(mh, bdry, verts, first, f0, i + 1)

\* bevel_face: one round of the loop of lines 866-886
RECURSIVE BevelFaceLink(_, _, _, _, _)
BevelFaceLink(m, bdry, first, n, i) ==
    IF ~Forced(m) \/ i >= n THEN m
    ELSE LET v0 == first + i
             v1 == first + ((i + 1) % n)
             v2 == first + ((i + n - 1) % n)
             h0 == VHalf(m, v0)
             h1 == VHalf(m, v1)
             h2 == HTwin(m, VHalf(m, v2))
             h3 == HTwin(m, HNext(m, HTwin(m, h0)))
             h4 == bdry[i + 1]
             h5 == HTwin(m, HNext(m, HTwin(m, h1)))
             f1 == HFace(m, h2)
             ma == SetNext(SetNext(m, h0, h1), h3, h2)
             mb == SetNext(SetFace(ma, h3, f1), h4, h5)
         IN BevelFaceLink(mb, bdry, first, n, i + 1)

BevelFaceFrom(m, f, bdry, verts) ==
    LET first == m.nv + 1
        f0 == m.nf + 1
        mb == BevelFacePos(NewFace(NewVertices(m, Len(verts))), verts, first, 0)
        mc == BevelFaceLoop(mb, bdry, verts, first, f0, 0)
        md == BevelFaceLink(mc, bdry, first, Len(verts), 0)
    IN Result(EraseF(md, f), f0)

\* Halfedge_Mesh::bevel_face
bevel_face(m, f) ==
    BevelFaceFrom(m, f, get_boundary_halfedges(m, FHalf(m, f)), get_vertices(m, f))

(***************************************************************************)
(* Global operators.  The element lists are walked with iterators: a list  *)
(* holds its elements in order of creation, so an iterator is an identity  *)
(* and the end() iterator is NIL.                                          *)
(***************************************************************************)
ListBegin(S) == IF S = {} THEN NIL ELSE SetMin(S)
ListNext(S, x) == ListBegin({y \in S : y > x})

\* triangulate, the quadrilateral case (lines 1052-1079)
TriangulateQuad(m, f, verts, bdry) ==
    LET v0 == verts[1]
        v1 == verts[2]
        v2 == verts[3]
        v3 == verts[4]
        e0 == m.ne + 1
        f0 == m.nf + 1
        h0 == bdry[1]
        h1 == bdry[2]
        h2 == m.nh + 1
        h3 == m.nh + 2
        h4 == bdry[3]
        h5 == bdry[4]
        m1 == NewHalfedges(NewFace(NewEdge(m)), 2)
        m2 == SetVHalf(SetVHalf(SetVHalf(SetVHalf(m1, v0, h0), v1, h1), v2, h4), v3, h5)
        m3 == SetFHalf(SetFHalf(SetEHalf(m2, e0, h2), f, h3), f0, h2)
        m4 == SetFace(m3, h0, f0)
        m5 == SetNeighbors(m4, h1, h2, TwinOf(h1), v1, EdgeOf(h1), f0)
        m6 == SetNeighbors(m5, h2, h0, h3, v2, e0, f0)
        m7 == SetNeighbors(m6, h3, h4, h2, v0, e0, f)
    IN SetNext(m7, h5, h3)

\* triangulate, one round of the ear loop (lines 1083-1101)
TriangulateEar(m, f, verts, bdry, i) ==
    LET n == Len(bdry)
        v0 == verts[i * 2 + 1]
        v1 == verts[((i * 2 + 1) % n) + 1]
        v2 == verts[((i * 2 + 2) % n) + 1]
        e0 == m.ne + 1
        f0 == m.nf + 1
        h0 == bdry[i * 2 + 1]
        h1 == bdry[((i * 2 + 1) % n) + 1]
        h2 == m.nh + 1
        h3 == m.nh + 2
        m1 == NewHalfedges(NewFace(NewEdge(m)), 2)
        m2 == SetFHalf(SetFHalf(SetEHalf(SetVHalf(SetVHalf(m1, v0, h0), v1, h1),
                                         e0, h2), f, h3), f0, h2)
        m3 == SetNeighbors(m2, h0, h1, TwinOf(h0), v0, EdgeOf(h0), f0)
        m4 == SetNeighbors(m3, h1, h2, TwinOf(h1), v1, EdgeOf(h1), f0)
        m5 == SetNeighbors(m4, h2, h0, h3, v2, e0, f0)
    IN SetNeighbors(m5, h3, h3, h2, v0, e0, f)

\* the ear loop: for (i = 0; i < n_verts / 2; i++)  (line 1082)
RECURSIVE TriangulateEars(_, _, _, _, _)
TriangulateEars(m, f, verts, bdry, i) ==
    IF ~Forced(m) \/ i >= Len(bdry) \div 2 THEN m
    ELSE TriangulateEars(TriangulateEar(m, f, verts, bdry, i), f, verts, bdry, i + 1)

\* get_last_halfedge(v->halfedge())->twin()  (lines 1109, 1110, 1114, 1117)
EarDiagonal(m, v) == HTwin(m, get_last_halfedge(m, VHalf(m, v)))

\* one round of a link loop: h3->next() = h4  (lines 1107-1111, 1122-1126)
TriangulateLink(m, verts, i) ==
    SetNext(m, EarDiagonal(m, verts[i * 2 + 1]),
            EarDiagonal(m, verts[((i * 2 + 2) % Len(verts)) + 1]))

\* a link loop: for (i = 0; i < rounds; i++)  (lines 1104, 1119)
RECURSIVE TriangulateLinks(_, _, _, _)
TriangulateLinks(m, verts, i, rounds) ==
    IF ~Forced(m) \/ i >= rounds THEN m
    ELSE TriangulateLinks(TriangulateLink(m, verts, i), verts, i + 1, rounds)

\* h4->next() = get_last_halfedge(verts[0]->halfedge())->twin()  (line 1117)
TriangulateClose(m, h4, v) == SetNext(m, h4, EarDiagonal(m, v))

\* the statements after the link loop of an odd face (lines 1113-1117)
TriangulateTail(m, verts, bdry) ==
    TriangulateClose(SetNext(m, EarDiagonal(m, verts[Len(verts) - 2]), bdry[Len(bdry)]),
                     bdry[Len(bdry)], verts[1])

\* the two link branches (lines 1103-1128)
TriangulateInner(m, verts, bdry) ==
    IF Len(bdry) % 2 # 0
    THEN TriangulateTail(TriangulateLinks(m, verts, 0, Len(bdry) \div 2 - 1), verts, bdry)
    ELSE TriangulateLinks(m, verts, 0, Len(bdry) \div 2)

\* the same loop body with the test of line 1048 left out
TriangulateFace_NoSkip(m, f) ==
    IF num_edges(m, f) = 4
    THEN TriangulateQuad(m, f, get_vertices(m, f), get_boundary_halfedges(m, FHalf(m, f)))
    ELSE TriangulateInner(TriangulateEars(m, f, get_vertices(m, f),
                                          get_boundary_halfedges(m, FHalf(m, f)), 0),
                          get_vertices(m, f), get_boundary_halfedges(m, FHalf(m, f)))

\* triangulate, the body of the loop over the faces (lines 1045-1128)
TriangulateFace(m, f) ==
    IF num_edges(m, f) = 3 THEN m
    ELSE IF num_edges(m, f) = 4
    THEN TriangulateQuad(m, f, get_vertices(m, f), get_boundary_halfedges(m, FHalf(m, f)))
    ELSE TriangulateInner(TriangulateEars(m, f, get_vertices(m, f),
                                          get_boundary_halfedges(m, FHalf(m, f)), 0),
                          get_vertices(m, f), get_boundary_halfedges(m, FHalf(m, f)))

\* the sum of the positions of the vertices of s
RECURSIVE SumPos(_, _, _)
SumPos(m, s, i) == IF i > Len(s) THEN 0 ELSE Pos(m, s[i]) + SumPos(m, s, i + 1)

\* loop_subdivide, the Loop rule of a vertex (lines 1289-1301); positions are
\* integers here, so the weights 1 - deg * u and u are applied as one quotient
LoopVertexPos(m, v) ==
    IF Len(get_neighbors(m, v)) = 3
    THEN (7 * Pos(m, v) + 3 * SumPos(m, get_neighbors(m, v), 1)) \div 16
    ELSE IF VertexDegree(m, v) = 0 THEN Pos(m, v)
    ELSE (5 * VertexDegree(m, v) * Pos(m, v) + 3 * SumPos(m, get_neighbors(m, v), 1))
             \div (8 * VertexDegree(m, v))

\* loop_subdivide, the position of the vertex an edge gives rise to (lines 1311-1314)
LoopEdgePos(m, e) ==
    (6 * Center(m, e) + Pos(m, HVert(m, HNext(m, HNext(m, EHalf(m, e)))))
                      + Pos(m, HVert(m, HNext(m, HNext(m, HTwin(m, EHalf(m, e))))))) \div 8

\* loop_subdivide, Step 1 and Step 2 (lines 1286-1315)
LoopPrepare(m) ==
    [m EXCEPT !.vnew = [v \in DOMAIN m.vnew |-> FALSE],
              !.vnpos = [v \in DOMAIN m.vnpos |-> LoopVertexPos(m, v)],
              !.enew = [e \in DOMAIN m.enew |-> FALSE],
              !.enpos = [e \in DOMAIN m.enpos |-> LoopEdgePos(m, e)]]

\* incident_edges[i]->is_new = b, for an index the vector has
MarkEdge(m, s, i, b) == IF i <= Len(s) THEN SetENew(m, s[i], b) ELSE m

\* the marking after a split with the second and third flags exchanged
LoopMark_Swapped(m, v, new_pos) ==
    SetVNew(SetVNewPos(MarkEdge(MarkEdge(MarkEdge(MarkEdge(m,
        get_incident_edges(m, v), 1, FALSE), get_incident_edges(m, v), 2, FALSE),
        get_incident_edges(m, v), 3, TRUE), get_incident_edges(m, v), 4, TRUE),
        v, new_pos), v, TRUE)

\* loop_subdivide, the marking after a split (lines 1332-1339)
LoopMark(m, v, new_pos) ==
    SetVNew(SetVNewPos(MarkEdge(MarkEdge(MarkEdge(MarkEdge(m,
        get_incident_edges(m, v), 1, FALSE), get_incident_edges(m, v), 2, TRUE),
        get_incident_edges(m, v), 3, FALSE), get_incident_edges(m, v), 4, TRUE),
        v, new_pos), v, TRUE)

\* loop_subdivide, one round of Step 3 (lines 1330-1339)
LoopSplit(m, e) == LoopMark(split_edge(m, e).m, split_edge(m, e).ret, m.enpos[e])

\* the loop test of Step 3, i < num_edges, taken one round short
LoopSplitMore_OneShort(i, n) == i + 1 < n

\* the loop test of Step 3 (line 1326)
LoopSplitMore(i, n) == i < n

\* loop_subdivide, the test of Step 4 (lines 1355-1358)
LoopFlips(m, e) ==
    /\ m.enew[e]
    /\ m.vnew[HVert(m, EHalf(m, e))] # m.vnew[HVert(m, HTwin(m, EHalf(m, e)))]

\* loop_subdivide, one round of Step 4 (lines 1355-1362)
LoopFlip(m, e) == IF LoopFlips(m, e) THEN flip_edge(m, e).m ELSE m

\* loop_subdivide, Step 5 (lines 1369-1371)
LoopCommit(m) == [m EXCEPT !.vpos = m.vnpos]

\* Face::degree(): the half-edges around f
FaceDegree(m, f) == num_edges(m, f)

\* isotropic_remesh, the entry test with only its first half (lines 1406-1409)
RemeshRejects_BoundaryOnly(m) == \E f \in FIds(m) : IsBoundary(m, f)

\* isotropic_remesh, the entry test over the faces (lines 1405-1414)
RemeshRejects(m) == \E f \in FIds(m) : IsBoundary(m, f) \/ FaceDegree(m, f) # 3

\* the test of the look-ahead loop: a half-edge of next lies on an incident
\* face of e (lines 1457-1459)
RemeshDoomed(m, faces, next) ==
    \/ HFace(m, EHalf(m, next)) \in Range(faces)
    \/ HFace(m, HTwin(m, EHalf(m, next))) \in Range(faces)

\* the look-ahead loop from next up to the end of the list (lines 1457-1461);
\* NIL when the loop comes to test end()
RECURSIVE RemeshAdvance(_, _, _, _)
RemeshAdvance(m, faces, next, fuel) ==
    IF next = NIL \/ fuel = 0 THEN NIL
    ELSE IF RemeshDoomed(m, faces, next)
    THEN RemeshAdvance(m, faces, ListNext(EIds(m), next), fuel - 1)
    ELSE next

\* the look-ahead of a short edge e.  Testing end() reads an edge that is not
\* there: the build may stop the loop there ("stop") or take the test as true
\* and step from end() to begin(), the list being circular ("wrap").
RemeshLookAhead(m, e, atEnd) ==
    IF RemeshAdvance(m, get_incident_faces(m, e), ListNext(EIds(m), e), m.ne + 1) # NIL
       \/ atEnd # "wrap"
    THEN RemeshAdvance(m, get_incident_faces(m, e), ListNext(EIds(m), e), m.ne + 1)
    ELSE RemeshAdvance(m, get_incident_faces(m, e), ListBegin(EIds(m)), m.ne + 1)

\* whether the look-ahead of e tests end()
RemeshHitsEnd(m, e) ==
    RemeshAdvance(m, get_incident_faces(m, e), ListNext(EIds(m), e), m.ne + 1) = NIL

\* collapse_edge_erase(e): collapse_edge(e), then the compaction
collapse_edge_erase(m, e) == Result(DoErase(collapse_edge(m, e).m), collapse_edge(m, e).ret)

\* dev(v, offset), lines 1377-1380; a vertex of a closed mesh has degree >= 1, so
\* degree + offset does not wrap
Dev(m, v, offset) ==
    IF VertexDegree(m, v) + offset >= 6 THEN VertexDegree(m, v) + offset - 6
    ELSE 6 - (VertexDegree(m, v) + offset)

\* isotropic_remesh, the flip test (lines 1503-1510)
RemeshFlips(m, e) ==
    LET h0 == EHalf(m, e)
        h1 == HTwin(m, h0)
        v0 == HVert(m, h0)
        v1 == HVert(m, h1)
        v2 == HVert(m, HNext(m, HNext(m, h0)))
        v3 == HVert(m, HNext(m, HNext(m, h1)))
    IN Dev(m, v0, 0) + Dev(m, v1, 0) + Dev(m, v2, 0) + Dev(m, v3, 0)
           > Dev(m, v0, 0 - 1) + Dev(m, v1, 0 - 1) + Dev(m, v2, 1) + Dev(m, v3, 1)

\* isotropic_remesh, one round of the flip loop (lines 1503-1512)
RemeshFlip(m, e) == IF RemeshFlips(m, e) THEN flip_edge(m, e).m ELSE m

\* isotropic_remesh, the flip loop from e to the end of the list (lines 1502-1513)
RECURSIVE RemeshFlipAll(_, _)
RemeshFlipAll(m, e) ==
    IF ~Forced(m) \/ e = NIL THEN m
    ELSE RemeshFlipAll(RemeshFlip(m, e), ListNext(EIds(m), e))

\* Vertex::neighborhood_center(): the mean of the neighbours' positions
NeighborhoodCenter(m, v) ==
    IF Len(get_neighbors(m, v)) = 0 THEN Pos(m, v)
    ELSE SumPos(m, get_neighbors(m, v), 1) \div Len(get_neighbors(m, v))

\* one smoothing pass (lines 1532-1559): new_pos = p + d / 5 for every vertex,
\* then pos = new_pos; along one axis the normal component of d is left in
SmoothPass(m) ==
    [m EXCEPT !.vnpos = [v \in DOMAIN m.vnpos |->
                            Pos(m, v) + (NeighborhoodCenter(m, v) - Pos(m, v)) \div 5],
              !.vpos = [v \in DOMAIN m.vpos |->
                            Pos(m, v) + (NeighborhoodCenter(m, v) - Pos(m, v)) \div 5]]

SmoothPasses == 15

\* the smoothing loop: for (i = 0; i < 15; i++)  (line 1531)
RECURSIVE Smooth(_, _)
Smooth(m, i) == IF ~Forced(m) \/ i >= SmoothPasses THEN m ELSE Smooth(SmoothPass(m), i + 1)

(***************************************************************************)
(* Starting meshes: closed polygon soups turned into half-edge meshes, a   *)
(* face of which may be flagged as a boundary (hole) face.                 *)
(***************************************************************************)
RECURSIVE PolyOffset(_, _)
PolyOffset(polys, f) == IF f <= 1 THEN 0 ELSE PolyOffset(polys, f - 1) + Len(polys[f - 1])

PolyFace(polys, h) ==
    CHOOSE f \in 1..Len(polys) : PolyOffset(polys, f) < h /\ h <= PolyOffset(polys, f + 1)
PolyCorner(polys, h) == h - PolyOffset(polys, PolyFace(polys, h))
PolySrc(polys, h) == polys[PolyFace(polys, h)][PolyCorner(polys, h)]
PolyDst(polys, h) ==
    polys[PolyFace(polys, h)][(PolyCorner(polys, h) % Len(polys[PolyFace(polys, h)])) + 1]
PolyNext(polys, h) ==
    PolyOffset(polys, PolyFace(polys, h))
        + (PolyCorner(polys, h) % Len(polys[PolyFace(polys, h)])) + 1

RECURSIVE Table(_, _, _)
Table(F(_), n, acc) == IF Len(acc) >= n THEN acc ELSE Table(F, n, Append(acc, F(Len(acc) + 1)))

FromLinks(nV, polys, bdry, src, tw, reps) ==
    LET H == 1..Len(src)
        nF == Len(polys)
        nE == Cardinality(reps)
        Rank(r) == Cardinality({q \in reps : q <= r})
    IN [nxt |-> [h \in H |-> PolyNext(polys, h)],
        twin |-> [h \in H |-> tw[h]],
        vert |-> [h \in H |-> src[h]],
        edge |-> [h \in H |-> Rank(IF h < tw[h] THEN h ELSE tw[h])],
        face |-> [h \in H |-> PolyFace(polys, h)],
        vh |-> [v \in 1..nV |-> SetMin({h \in H : src[h] = v})],
        vpos |-> [v \in 1..nV |-> 16 * v],
        vnew |-> [v \in 1..nV |-> FALSE],
        vnpos |-> [v \in 1..nV |-> 0],
        eh |-> [e \in 1..nE |-> CHOOSE r \in reps : Rank(r) = e],
        enew |-> [e \in 1..nE |-> FALSE],
        enpos |-> [e \in 1..nE |-> 0],
        fh |-> [f \in 1..nF |-> PolyOffset(polys, f) + 1],
        fb |-> [f \in 1..nF |-> f \in bdry],
        verased |-> {}, eerased |-> {}, ferased |-> {}, herased |-> {},
        nv |-> nV, ne |-> nE, nf |-> nF, nh |-> Len(src)]

FromTwins(nV, polys, bdry, src, tw) ==
    FromLinks(nV, polys, bdry, src, tw,
              {(IF h < tw[h] THEN h ELSE tw[h]) : h \in 1..Len(src)})

FromEnds(nV, polys, bdry, src, dst) ==
    FromTwins(nV, polys, bdry, src,
              Table(LAMBDA h : CHOOSE g \in 1..Len(src) : src[g] = dst[h] /\ dst[g] = src[h],
                    Len(src), << >>))

FromPoly(nV, polys, bdry) ==
    FromEnds(nV, polys, bdry,
             Table(LAMBDA h : PolySrc(polys, h), PolyOffset(polys, Len(polys) + 1), << >>),
             Table(LAMBDA h : PolyDst(polys, h), PolyOffset(polys, Len(polys) + 1), << >>))

\* n side triangles around an apex over the polygon 1..n, and the polygon below
PyramidPolys(n) ==
    [i \in 1..(n + 1) |->
        IF i <= n THEN <<i, (i % n) + 1, n + 1>> ELSE [j \in 1..n |-> n + 1 - j]]
\* n triangles around each of two apices
BipyramidPolys(n) ==
    [i \in 1..(2 * n) |->
        IF i <= n THEN <<i, (i % n) + 1, n + 1>>
        ELSE <<((i - n) % n) + 1, i - n, n + 2>>]
\* two n-gons back to back
DihedronPolys(n) == <<[j \in 1..n |-> j], [j \in 1..n |-> n + 1 - j]>>
TetraPolys == <<<<1, 2, 3>>, <<1, 4, 2>>, <<2, 4, 3>>, <<3, 4, 1>>>>
\* a square cut by a diagonal, and the face around it
TwoTriPolys == <<<<1, 2, 3>>, <<1, 3, 4>>, <<4, 3, 2, 1>>>>

Tetra == FromPoly(4, TetraPolys, {})
Octa == FromPoly(6, BipyramidPolys(4), {})
Bipyramid(n) == FromPoly(n + 2, BipyramidPolys(n), {})
Pyramid(n) == FromPoly(n + 1, PyramidPolys(n), {})
Fan(n) == FromPoly(n + 1, PyramidPolys(n), {n + 1})
Dihedron(n) == FromPoly(n, DihedronPolys(n), {})
Polygon(n) == FromPoly(n, DihedronPolys(n), {2})
TwoTri == FromPoly(4, TwoTriPolys, {3})
\* the cube, each square cut into two triangles: 8 vertices, 18 edges, 12 faces
CubePolys == <<<<1, 3, 4>>, <<1, 4, 2>>, <<5, 6, 8>>, <<5, 8, 7>>, <<1, 2, 6>>, <<1, 6, 5>>,
              <<3, 7, 8>>, <<3, 8, 4>>, <<1, 5, 7>>, <<1, 7, 3>>, <<2, 4, 8>>, <<2, 8, 6>>>>
Cube == FromPoly(8, CubePolys, {})

\* Meshes the local operators start from.
OpSeeds == {Tetra, Octa, Pyramid(4), Fan(4), Fan(3), TwoTri, Dihedron(4), Polygon(4)}

\* the square and the two triangles after flip_edge of an edge beside the
\* boundary face (edge 1 of the square, edge 2 of the two triangles): meshes
\* the Validator accepts, that the editor reaches in one operation, and in
\* which the boundary face passes twice through one vertex
FlippedSquare == flip_edge(Polygon(4), 1).m
FlippedTwoTri == flip_edge(TwoTri, 2).m
FlippedSeeds == {FlippedSquare, FlippedTwoTri}

(***************************************************************************)
(* Interactive use: one local operator call, then the caller's validate(). *)
(***************************************************************************)
InitWith(seeds) ==
    /\ mesh \in seeds
    /\ op = "none" /\ arg = NIL /\ ret = NIL /\ ok = TRUE /\ nops = 0
    /\ pc = "idle" /\ it = NIL /\ cnt = 0 /\ bound = 0
    /\ hist = << >>
    /\ nlong = 0 /\ nshort = 0 /\ derefEnd = FALSE
    /\ log = << >>
    /\ edge_queue = [r \in {1, 2} |-> {}] /\ addr = << >> /\ popped = << >>

Call(name, x, r) ==
    /\ pc = "idle" /\ ok /\ nops < MaxOps
    /\ mesh' = r.m
    /\ op' = name /\ arg' = x /\ ret' = r.ret
    /\ ok' = Valid(r.m)
    /\ nops' = nops + 1
    /\ pc' = "returned"
    /\ hist' = <<mesh>>
    /\ UNCHANGED <<it, cnt, bound, nlong, nshort, derefEnd, aux>>

EraseVertexOp == \E v \in LiveV(mesh) : Call("erase_vertex", v, erase_vertex(mesh, v))
EraseEdgeOp == \E e \in LiveE(mesh) : Call("erase_edge", e, erase_edge(mesh, e))
FlipEdgeOp == \E e \in LiveE(mesh) : Call("flip_edge", e, flip_edge(mesh, e))
SplitEdgeOp == \E e \in LiveE(mesh) : Call("split_edge", e, split_edge(mesh, e))
CollapseEdgeOp == \E e \in LiveE(mesh) : Call("collapse_edge", e, collapse_edge(mesh, e))
BevelVertexOp == \E v \in LiveV(mesh) : Call("bevel_vertex", v, bevel_vertex(mesh, v))
BevelEdgeOp == \E e \in LiveE(mesh) : Call("bevel_edge", e, bevel_edge(mesh, e))
BevelFaceOp == \E f \in LiveF(mesh) : Call("bevel_face", f, bevel_face(mesh, f))
CollapseFaceOp == \E f \in LiveF(mesh) : Call("collapse_face", f, collapse_face(mesh, f))

\* a second flip_edge of the edge just flipped
FlipAgain ==
    /\ pc = "returned" /\ op = "flip_edge"
    /\ mesh' = flip_edge(mesh, arg).m
    /\ ret' = flip_edge(mesh, arg).ret
    /\ ok' = Valid(flip_edge(mesh, arg).m)
    /\ nops' = nops + 1
    /\ pc' = "flipped twice"
    /\ UNCHANGED <<op, arg, it, cnt, bound, hist, nlong, nshort, derefEnd, aux>>

\* the caller's validate() after a local operator: compaction when ok
CallerValidate ==
    /\ pc = "returned" /\ ok
    /\ mesh' = DoErase(mesh)
    /\ pc' = "idle"
    /\ UNCHANGED <<op, arg, ret, ok, nops, it, cnt, bound, hist,
                   nlong, nshort, derefEnd, aux>>

Init == InitWith(OpSeeds)
Next == \/ EraseVertexOp \/ EraseEdgeOp \/ CollapseEdgeOp \/ CollapseFaceOp
        \/ FlipEdgeOp \/ SplitEdgeOp \/ BevelVertexOp \/ BevelEdgeOp \/ BevelFaceOp
        \/ FlipAgain \/ CallerValidate
Spec == Init /\ [][Next]_vars

\* the same editor, started from a mesh on which a boundary edge was flipped
InitFlipped == InitWith(FlippedSeeds)
SpecFlipped == InitFlipped /\ [][Next]_vars

(***************************************************************************)
(* triangulate: one step per face of the list, in list order; the faces    *)
(* the call appends are reached by the same loop.                          *)
(***************************************************************************)
MaxSides == 8

TriSeeds == {Tetra, Octa} \cup {Pyramid(n) : n \in 3..MaxSides}
            \cup {Dihedron(n) : n \in 3..MaxSides} \cup {Fan(n) : n \in 3..MaxSides}
            \cup {Polygon(n) : n \in 3..MaxSides}

MaxRuns == 2

TriangulateCall ==
    /\ pc \in {"idle", "returned"} /\ ok /\ nops < MaxRuns
    /\ op' = "triangulate" /\ arg' = NIL /\ ret' = NIL
    /\ hist' = <<mesh>>
    /\ it' = ListBegin(FIds(mesh))
    /\ pc' = "triangulate"
    /\ UNCHANGED <<mesh, ok, nops, cnt, bound, nlong, nshort, derefEnd, aux>>

TriangulateStep ==
    /\ pc = "triangulate" /\ it # NIL
    /\ mesh' = TriangulateFace(mesh, it)
    /\ it' = ListNext(FIds(mesh'), it)
    /\ UNCHANGED <<op, arg, ret, ok, nops, pc, cnt, bound, hist, nlong, nshort, derefEnd, aux>>

TriangulateReturn ==
    /\ pc = "triangulate" /\ it = NIL
    /\ pc' = "returned"
    /\ ok' = Valid(mesh)
    /\ nops' = nops + 1
    /\ UNCHANGED <<mesh, op, arg, ret, it, cnt, bound, hist, nlong, nshort, derefEnd, aux>>

InitTri == InitWith(TriSeeds)
NextTri == TriangulateCall \/ TriangulateStep \/ TriangulateReturn
SpecTri == InitTri /\ [][NextTri]_vars

(***************************************************************************)
(* loop_subdivide: Steps 1 and 2 at the call, then one step per round of   *)
(* the split loop and of the flip loop, then the commit of the positions.  *)
(***************************************************************************)
MaxApex == 5

LoopSeeds == {Tetra, Dihedron(3)} \cup {Bipyramid(n) : n \in 3..MaxApex}

LoopCall ==
    /\ pc = "idle" /\ ok
    /\ op' = "loop_subdivide" /\ arg' = NIL /\ ret' = NIL
    /\ hist' = <<mesh>>
    /\ mesh' = LoopPrepare(mesh)
    /\ it' = ListBegin(EIds(mesh))
    /\ cnt' = 0 /\ bound' = NEdges(mesh)
    /\ pc' = "loop_split"
    /\ UNCHANGED <<ok, nops, nlong, nshort, derefEnd, aux>>

LoopSplitStep ==
    /\ pc = "loop_split" /\ LoopSplitMore(cnt, bound)
    /\ mesh' = LoopSplit(mesh, it)
    /\ it' = ListNext(EIds(mesh), it)
    /\ cnt' = cnt + 1
    /\ UNCHANGED <<op, arg, ret, ok, nops, pc, bound, hist, nlong, nshort, derefEnd, aux>>

LoopSplitDone ==
    /\ pc = "loop_split" /\ ~LoopSplitMore(cnt, bound)
    /\ it' = ListBegin(EIds(mesh))
    /\ pc' = "loop_flip"
    /\ UNCHANGED <<mesh, op, arg, ret, ok, nops, cnt, bound, hist, nlong, nshort, derefEnd, aux>>

LoopFlipStep ==
    /\ pc = "loop_flip" /\ it # NIL
    /\ mesh' = LoopFlip(mesh, it)
    /\ it' = ListNext(EIds(mesh), it)
    /\ UNCHANGED <<op, arg, ret, ok, nops, pc, cnt, bound, hist, nlong, nshort, derefEnd, aux>>

LoopReturn ==
    /\ pc = "loop_flip" /\ it = NIL
    /\ mesh' = LoopCommit(mesh)
    /\ ok' = Valid(mesh)
    /\ nops' = nops + 1
    /\ pc' = "returned"
    /\ UNCHANGED <<op, arg, ret, it, cnt, bound, hist, nlong, nshort, derefEnd, aux>>

InitLoop == InitWith(LoopSeeds)
NextLoop == LoopCall \/ LoopSplitStep \/ LoopSplitDone \/ LoopFlipStep \/ LoopReturn
SpecLoop == InitLoop /\ [][NextLoop]_vars

(***************************************************************************)
(* isotropic_remesh: one step per round of the split loop and of the       *)
(* collapse loop, one step for the flip loop.  Lengths and normals         *)
(* are not part of the model: whether an edge is long or short, and        *)
(* whether every normal is finite, is any of the two answers.  At most     *)
(* MaxPicks edges of a run are found long or short.                        *)
(***************************************************************************)
MaxPicks == 2
RetTrue == 1
RetFalse == 0

RemeshSeeds == {Tetra, Dihedron(3), Octa, Cube, Pyramid(4), Fan(3), TwoTri, Dihedron(4)}

RemeshReject ==
    /\ pc = "idle" /\ ok
    /\ RemeshRejects(mesh)
    /\ op' = "isotropic_remesh" /\ arg' = NIL /\ ret' = RetFalse
    /\ hist' = <<mesh>>
    /\ nops' = nops + 1
    /\ pc' = "returned"
    /\ log' = << >>
    /\ UNCHANGED <<mesh, ok, it, cnt, bound, nlong, nshort, derefEnd, qvars>>

RemeshCall ==
    /\ pc = "idle" /\ ok
    /\ ~RemeshRejects(mesh)
    /\ op' = "isotropic_remesh" /\ arg' = NIL /\ ret' = NIL
    /\ hist' = <<mesh>>
    /\ it' = ListBegin(EIds(mesh))
    /\ cnt' = 0 /\ bound' = NEdges(mesh)
    /\ pc' = "split"
    /\ log' = << >>
    /\ UNCHANGED <<mesh, ok, nops, nlong, nshort, derefEnd, qvars>>

\* lines 1426-1431
RemeshSplitStep ==
    /\ pc = "split" /\ cnt < bound
    /\ \E long \in BOOLEAN :
           /\ long => nlong + nshort < MaxPicks
           /\ mesh' = IF long THEN split_edge(mesh, it).m ELSE mesh
           /\ nlong' = IF long THEN nlong + 1 ELSE nlong
    /\ it' = ListNext(EIds(mesh), it)
    /\ cnt' = cnt + 1
    /\ UNCHANGED <<op, arg, ret, ok, nops, pc, bound, hist, nshort, derefEnd, aux>>

\* validate() and the loop over the normals that end a phase
\* (lines 1434-1445, 1476-1498, 1515-1526)
RemeshCheck(phase, to, first) ==
    /\ mesh' = Validate(mesh)
    /\ ok' = Valid(mesh)
    /\ \E finite \in BOOLEAN :
           IF Valid(mesh) /\ finite
           THEN /\ pc' = to
                /\ it' = first
                /\ cnt' = 0 /\ bound' = NEdges(Validate(mesh))
                /\ log' = log \o <<phase, "check passed">>
                /\ UNCHANGED <<ret, nops>>
           ELSE /\ pc' = "returned"
                /\ ret' = RetFalse
                /\ nops' = nops + 1
                /\ log' = log \o <<phase, "check failed">>
                /\ UNCHANGED <<it, cnt, bound>>
    /\ UNCHANGED <<op, arg, hist, nlong, nshort, derefEnd, qvars>>

RemeshSplitDone ==
    /\ pc = "split" /\ cnt >= bound
    /\ RemeshCheck("split", "collapse", ListBegin(EIds(Validate(mesh))))

\* lines 1451-1473, e a live edge
RemeshCollapseStep ==
    /\ pc = "collapse" /\ cnt < bound /\ it # NIL
    /\ \E short \in BOOLEAN, atEnd \in {"stop", "wrap", "crash"} :
           /\ short => nlong + nshort < MaxPicks
           /\ (atEnd # "stop") => (short /\ RemeshHitsEnd(mesh, it))
           /\ IF atEnd = "crash"
              THEN /\ pc' = "crashed"
                   /\ UNCHANGED <<mesh, it, cnt, nshort>>
              ELSE /\ pc' = pc
                   /\ mesh' = IF short THEN collapse_edge_erase(mesh, it).m ELSE mesh
                   /\ it' = IF short /\ collapse_edge_erase(mesh, it).ret # NIL
                            THEN RemeshLookAhead(mesh, it, atEnd)
                            ELSE ListNext(EIds(mesh), it)
                   /\ cnt' = IF short /\ collapse_edge_erase(mesh, it).ret # NIL
                             THEN cnt + 3 ELSE cnt + 1
                   /\ nshort' = IF short THEN nshort + 1 ELSE nshort
           /\ derefEnd' = (derefEnd \/ (short /\ RemeshHitsEnd(mesh, it)))
    /\ UNCHANGED <<op, arg, ret, ok, nops, bound, hist, nlong, aux>>

\* lines 1451-1473, e = end(): e->length() reads an edge that is not there.  The
\* build may fault; if the read yields a length that is not short, e becomes
\* next, which is begin().
RemeshCollapseAtEnd ==
    /\ pc = "collapse" /\ cnt < bound /\ it = NIL
    /\ derefEnd' = TRUE
    /\ \/ /\ pc' = "crashed"
          /\ UNCHANGED <<it, cnt>>
       \/ /\ pc' = pc
          /\ it' = ListBegin(EIds(mesh))
          /\ cnt' = cnt + 1
    /\ UNCHANGED <<mesh, op, arg, ret, ok, nops, bound, hist, nlong, nshort, aux>>

RemeshCollapseDone ==
    /\ pc = "collapse" /\ cnt >= bound
    /\ RemeshCheck("collapse", "flip", ListBegin(EIds(Validate(mesh))))

\* lines 1502-1513, the whole loop
RemeshFlipLoop ==
    /\ pc = "flip"
    /\ mesh' = RemeshFlipAll(mesh, it)
    /\ it' = NIL
    /\ pc' = "flipped"
    /\ UNCHANGED <<op, arg, ret, ok, nops, cnt, bound, hist, nlong, nshort, derefEnd, aux>>

RemeshFlipDone ==
    /\ pc = "flipped"
    /\ RemeshCheck("flip", "smooth", NIL)

\* lines 1529-1563: the smoothing passes, then return true
RemeshSmooth ==
    /\ pc = "smooth"
    /\ mesh' = Smooth(mesh, 0)
    /\ ret' = RetTrue
    /\ ok' = Valid(mesh)
    /\ nops' = nops + 1
    /\ pc' = "returned"
    /\ log' = Append(log, "smooth")
    /\ UNCHANGED <<op, arg, it, cnt, bound, hist, nlong, nshort, derefEnd, qvars>>

InitRemesh == InitWith(RemeshSeeds)
NextRemesh == \/ RemeshReject \/ RemeshCall \/ RemeshSplitStep \/ RemeshSplitDone
              \/ RemeshCollapseStep \/ RemeshCollapseAtEnd \/ RemeshCollapseDone
              \/ RemeshFlipLoop \/ RemeshFlipDone \/ RemeshSmooth
SpecRemesh == InitRemesh /\ [][NextRemesh]_vars

(***************************************************************************)
(* simplify, and the Edge_Record ordering and the PQueue it declares.      *)
(* A run is one execution of the program on the input; the store of each   *)
(* run places the edges at addresses of its allocator's choosing.          *)
(***************************************************************************)
Runs == {1, 2}

\* PQueue<Edge_Record> edge_queue: constructed empty
EmptyQueues == [r \in Runs |-> {}]

\* a variant of simplify that splits the first edge of the list before it returns
simplify_SplitFirst(m) == Result(split_edge(m, ListBegin(EIds(m))).m, RetFalse)

\* bool Halfedge_Mesh::simplify(): declares its four containers and returns false
simplify(m) == Result(m, RetFalse)

\* a variant of the comparison that breaks ties by the edge's id()
EdgeRecordLess_ById(r1, r2, a) ==
    IF r1.cost # r2.cost THEN r1.cost < r2.cost
    ELSE r1.edge < r2.edge

\* operator<(const Edge_Record&, const Edge_Record&): by cost, then by the
\* address &*e of the edge, a the map from edges to addresses
EdgeRecordLess(r1, r2, a) ==
    IF r1.cost # r2.cost THEN r1.cost < r2.cost
    ELSE a[r1.edge] < a[r2.edge]

\* equivalence of std::set<Edge_Record>: neither is less than the other
QueueFind(Q, item, a) ==
    {q \in Q : ~EdgeRecordLess(q, item, a) /\ ~EdgeRecordLess(item, q, a)}

\* PQueue::insert: std::set keeps one of several equivalent items
QueueInsertItem(Q, item, a) == IF QueueFind(Q, item, a) = {} THEN Q \cup {item} ELSE Q

\* PQueue::remove
QueueRemoveItem(Q, item, a) ==
    IF QueueFind(Q, item, a) # {} THEN Q \ QueueFind(Q, item, a) ELSE Q

\* top() answering the last item of the set instead of the first
QueueTop_Last(Q, a) == CHOOSE q \in Q : \A p \in Q : ~EdgeRecordLess(q, p, a)

\* PQueue::top: *(queue.begin()), the item no other item is less than
QueueTop(Q, a) == CHOOSE q \in Q : \A p \in Q : ~EdgeRecordLess(p, q, a)

\* PQueue::pop
QueuePopped(Q, a) == Q \ {QueueTop(Q, a)}

\* PQueue::size (lines 1666-1668): the size of the std::set
QueueSize(Q) == Cardinality(Q)

MaxCalls == 2

\* a call of simplify() from the editor, on the compacted mesh
SimplifyCall ==
    /\ pc = "idle" /\ ok /\ nops < MaxOps + MaxCalls
    /\ op' = "simplify" /\ arg' = NIL
    /\ hist' = <<mesh>>
    /\ edge_queue' = EmptyQueues
    /\ mesh' = simplify(mesh).m
    /\ ret' = simplify(mesh).ret
    /\ ok' = Valid(simplify(mesh).m)
    /\ nops' = nops + 1
    /\ pc' = "returned"
    /\ UNCHANGED <<it, cnt, bound, nlong, nshort, derefEnd, log, addr, popped>>

InitSimplify == InitWith(OpSeeds)
NextSimplify == \/ EraseVertexOp \/ EraseEdgeOp \/ CollapseEdgeOp \/ CollapseFaceOp
                \/ FlipEdgeOp \/ SplitEdgeOp \/ BevelVertexOp \/ BevelEdgeOp \/ BevelFaceOp
                \/ FlipAgain \/ CallerValidate \/ SimplifyCall
SpecSimplify == InitSimplify /\ [][NextSimplify]_vars

(***************************************************************************)
(* Two runs of a PQueue<Edge_Record> on the same records: the same edges   *)
(* with the same id() and the same costs, stored where each run's          *)
(* allocator put them.                                                     *)
(***************************************************************************)
MaxQEdges == 2
MaxCost == 1
MaxPops == 2

QEdges == 1..MaxQEdges
Costs == 0..MaxCost
Records == [edge : QEdges, cost : Costs]

\* the placements of the edges at distinct addresses
Placements == {a \in [QEdges -> QEdges] : \A x, y \in QEdges : a[x] = a[y] => x = y}

QueueInsert ==
    /\ pc = "queue"
    /\ \E item \in Records :
           edge_queue' = [r \in Runs |-> QueueInsertItem(edge_queue[r], item, addr[r])]
    /\ UNCHANGED <<mesh, op, arg, ret, ok, nops, pc, it, cnt, bound, hist,
                   nlong, nshort, derefEnd, log, addr, popped>>

QueueRemove ==
    /\ pc = "queue"
    /\ \E item \in Records :
           edge_queue' = [r \in Runs |-> QueueRemoveItem(edge_queue[r], item, addr[r])]
    /\ UNCHANGED <<mesh, op, arg, ret, ok, nops, pc, it, cnt, bound, hist,
                   nlong, nshort, derefEnd, log, addr, popped>>

\* top() then pop(), as the simplification loop is to use them
QueuePop ==
    /\ pc = "queue"
    /\ \A r \in Runs : edge_queue[r] # {} /\ Len(popped[r]) < MaxPops
    /\ popped' = [r \in Runs |-> Append(popped[r], QueueTop(edge_queue[r], addr[r]).edge)]
    /\ edge_queue' = [r \in Runs |-> QueuePopped(edge_queue[r], addr[r])]
    /\ UNCHANGED <<mesh, op, arg, ret, ok, nops, pc, it, cnt, bound, hist,
                   nlong, nshort, derefEnd, log, addr>>

\* size(), asked of the queue of the first run
QueueSizeCall ==
    /\ pc = "queue"
    /\ ret' = QueueSize(edge_queue[1])
    /\ UNCHANGED <<mesh, op, arg, ok, nops, pc, it, cnt, bound, hist,
                   nlong, nshort, derefEnd, aux>>

InitQueue ==
    /\ mesh = Tetra
    /\ op = "none" /\ arg = NIL /\ ret = NIL /\ ok = TRUE /\ nops = 0
    /\ pc = "queue" /\ it = NIL /\ cnt = 0 /\ bound = 0
    /\ hist = << >>
    /\ nlong = 0 /\ nshort = 0 /\ derefEnd = FALSE
    /\ log = << >>
    /\ edge_queue = EmptyQueues
    /\ addr \in [Runs -> Placements]
    /\ popped = [r \in Runs |-> << >>]
NextQueue == QueueInsert \/ QueueRemove \/ QueuePop \/ QueueSizeCall
SpecQueue == InitQueue /\ [][NextQueue]_vars

(***************************************************************************)
(* Properties of the local operators, over Spec.  hist[1] is the mesh the  *)
(* last call started from.                                                 *)
(***************************************************************************)

\* C1: every local operator call that returns a value leaves a mesh on which
\* the Validator reports ok.
C1_SuccessLeavesValid == (pc = "returned" /\ ret # NIL) => ok

\* C2: whenever erase_vertex, erase_edge, collapse_edge or collapse_face returns
\* none, the mesh is exactly the mesh before the call: same elements, same marks,
\* same links, representatives and positions.
C2_NoneLeavesMeshUnchanged ==
    (/\ pc = "returned"
     /\ op \in {"erase_vertex", "erase_edge", "collapse_edge", "collapse_face"}
     /\ ret = NIL) => mesh = hist[1]

C2_Witness ==
    /\ pc = "returned" /\ op = "erase_edge" /\ ret = NIL
    /\ on_boundary_e(hist[1], arg)
    /\ mesh = hist[1]

\* C3: erase_vertex(v) returns none for every vertex v that has an outgoing
\* half-edge h such that the face of h or the face of twin(h) is a boundary face.
C3_BoundaryVertexNotErased ==
    (/\ pc = "returned" /\ op = "erase_vertex"
     /\ \E h \in LiveH(hist[1]) :
           /\ hist[1].vert[h] = arg
           /\ \/ hist[1].fb[hist[1].face[h]]
              \/ hist[1].fb[hist[1].face[hist[1].twin[h]]]) => ret = NIL

\* a boundary vertex all of whose neighbours have three incident edges or more, so that
\* only the boundary test rejects it
C3_Witness ==
    /\ pc = "returned" /\ op = "erase_vertex" /\ ret = NIL
    /\ on_boundary_v(hist[1], arg)
    /\ ~AnyBelow3(hist[1], get_neighbors(hist[1], arg))

\* C4: after a successful collapse_edge, every live vertex other than the merged
\* vertex that had three incident edges or more before the call still has three
\* or more.
C4_OthersKeepThreeEdges ==
    (pc = "returned" /\ op = "collapse_edge" /\ ret # NIL) =>
        \A v \in (LiveV(mesh) \cap LiveV(hist[1])) \ {ret} :
            num_incident_edges(hist[1], v) >= 3 => num_incident_edges(mesh, v) >= 3

\* the vertex-cycle of a face, up to the half-edge the face starts from
Rotations(s) ==
    {[i \in 1..Len(s) |-> s[((i + k - 1) % Len(s)) + 1]] : k \in 0..(Len(s) - 1)}
FaceCycles(m) == {Rotations(get_vertices(m, f)) : f \in LiveF(m)}
Endpoints(m, e) == {HVert(m, EHalf(m, e)), HVert(m, HTwin(m, EHalf(m, e)))}
\* e is an interior edge between two faces, both triangles
FlipCase(m, e) ==
    /\ ~on_boundary_e(m, e)
    /\ HFace(m, EHalf(m, e)) # HFace(m, HTwin(m, EHalf(m, e)))
    /\ num_edges(m, HFace(m, EHalf(m, e))) = 3
    /\ num_edges(m, HFace(m, HTwin(m, EHalf(m, e)))) = 3

\* C5: for an interior edge e between two triangles, flip_edge(e) twice restores
\* the connectivity: e joins its two original endpoints, every vertex has its
\* original degree and neighbours, and the face vertex-cycles are the original ones.
C5_FlipTwiceRestores ==
    (pc = "flipped twice" /\ FlipCase(hist[1], arg)) =>
        /\ Endpoints(mesh, arg) = Endpoints(hist[1], arg)
        /\ LiveV(mesh) = LiveV(hist[1])
        /\ \A v \in LiveV(mesh) :
              /\ VertexDegree(mesh, v) = VertexDegree(hist[1], v)
              /\ Len(get_neighbors(mesh, v)) = Len(get_neighbors(hist[1], v))
              /\ Range(get_neighbors(mesh, v)) = Range(get_neighbors(hist[1], v))
        /\ FaceCycles(mesh) = FaceCycles(hist[1])

C5_Witness ==
    /\ pc = "flipped twice" /\ FlipCase(hist[1], arg)
    /\ Endpoints(mesh, arg) = Endpoints(hist[1], arg)
    /\ FaceCycles(mesh) = FaceCycles(hist[1])
    /\ mesh # hist[1]

\* the number of sides of face f beyond three, over the faces of m
RECURSIVE Excess(_, _)
Excess(m, S) ==
    IF S = {} THEN 0
    ELSE LET f == SetMin(S)
         IN (IF num_edges(m, f) > 3 THEN num_edges(m, f) - 3 ELSE 0) + Excess(m, S \ {f})
AllTriangles(m) == \A f \in LiveF(m) : num_edges(m, f) = 3
Closed(m) == \A f \in LiveF(m) : ~IsBoundary(m, f)

\* C6: one loop_subdivide pass over a closed manifold triangle mesh with V
\* vertices, E edges and F faces returns a mesh with exactly V+E live vertices
\* and 4F live faces, every one of them a triangle.
C6_LoopCounts ==
    (/\ pc = "returned" /\ op = "loop_subdivide"
     /\ Closed(hist[1]) /\ AllTriangles(hist[1])) =>
        /\ NVertices(mesh) = NVertices(hist[1]) + NEdges(hist[1])
        /\ NFaces(mesh) = 4 * NFaces(hist[1])
        /\ AllTriangles(mesh)
C6_Witness ==
    /\ pc = "returned" /\ op = "loop_subdivide"
    /\ Closed(hist[1]) /\ AllTriangles(hist[1])
    /\ NVertices(hist[1]) = 6 /\ NEdges(hist[1]) = 12 /\ NFaces(hist[1]) = 8
    /\ NVertices(mesh) = 18 /\ NFaces(mesh) = 32
    /\ \E e \in LiveE(mesh) : mesh.enew[e]

\* C7: after triangulate() on a valid mesh (taken here without boundary faces,
\* so that only the faces the claim speaks of are involved) every face has degree
\* 3, the vertex count is unchanged, the face count and the edge count have each
\* grown by n-3 for every original face of degree n > 3, and both endpoints of
\* every new edge are vertices of one original face of degree > 3.
C7_EveryFaceTriangulated ==
    (pc = "returned" /\ op = "triangulate" /\ nops = 1 /\ Closed(hist[1])) =>
        /\ AllTriangles(mesh)
        /\ NVertices(mesh) = NVertices(hist[1])
        /\ NFaces(mesh) = NFaces(hist[1]) + Excess(hist[1], LiveF(hist[1]))
        /\ NEdges(mesh) = NEdges(hist[1]) + Excess(hist[1], LiveF(hist[1]))
        /\ \A e \in LiveE(mesh) \ LiveE(hist[1]) :
               \E f \in LiveF(hist[1]) :
                   /\ num_edges(hist[1], f) > 3
                   /\ Endpoints(mesh, e) \subseteq Range(get_vertices(hist[1], f))

\* C8: triangulate() on a mesh whose faces all have degree 3 leaves every count
\* and every link as it was, at every point of the call and at its return; in
\* particular a second run on the all-triangle result of a first run changes
\* nothing.
C8_TrianglesUntouched ==
    (pc \in {"triangulate", "returned"} /\ op = "triangulate" /\ AllTriangles(hist[1]))
        => mesh = hist[1]
C8_Witness ==
    /\ pc = "returned" /\ op = "triangulate" /\ nops = 2
    /\ AllTriangles(hist[1]) /\ mesh = hist[1]
    /\ NFaces(mesh) = 8

\* the points the phases of isotropic_remesh end at: the split loop is over, the
\* collapse loop is over, the flip loop is over, smoothing is next, the call
\* has returned
AfterPhase ==
    \/ pc \in {"split", "collapse"} /\ cnt >= bound
    \/ pc \in {"flipped", "smooth", "returned"}

\* C9: when isotropic_remesh is started on a closed, all-triangle mesh without
\* boundary faces, then for every choice of the long and the short edges, after
\* the split phase, after the collapse phase, after the flip phase and at
\* return, every live face is a non-boundary face of degree 3 and the mesh
\* satisfies the invariants of the Validator.
C9_RemeshKeepsClosedTriangles ==
    (/\ op = "isotropic_remesh" /\ AfterPhase
     /\ Closed(hist[1]) /\ AllTriangles(hist[1])) =>
        Closed(mesh) /\ AllTriangles(mesh) /\ Valid(mesh)
C9_Witness ==
    /\ op = "isotropic_remesh" /\ pc = "returned" /\ ret = RetTrue
    /\ Closed(hist[1]) /\ AllTriangles(hist[1])
    /\ NVertices(hist[1]) = 8 /\ NFaces(hist[1]) = 12
    /\ nlong = 1 /\ nshort = 1 /\ NVertices(mesh) = 8 /\ NFaces(mesh) = 12
    /\ Closed(mesh) /\ AllTriangles(mesh) /\ Valid(mesh)

\* C10: isotropic_remesh on a mesh that has a boundary face or a face whose
\* degree is not 3 does nothing but return false: the mesh is at no point
\* other than it was at the call.
C10_RejectLeavesMeshAlone ==
    (op = "isotropic_remesh" /\ ~(Closed(hist[1]) /\ AllTriangles(hist[1]))) =>
        pc = "returned" /\ ret = RetFalse /\ mesh = hist[1]
C10_Witness ==
    /\ op = "isotropic_remesh" /\ pc = "returned" /\ ret = RetFalse
    /\ Closed(hist[1]) /\ ~AllTriangles(hist[1])
    /\ mesh = hist[1]

(***************************************************************************)
(* The checks between the phases of isotropic_remesh, over SpecRemesh.     *)
(***************************************************************************)
RemeshPhases == {"split", "collapse", "flip", "smooth"}

\* C11: in isotropic_remesh every phase that ended (split, collapse, flip,
\* smoothing) is followed at once by the Validator and the finite-normal check,
\* and a failed check is the last thing the call did: it returned false and no
\* later phase ran.
C11_CheckAfterEveryPhase ==
    (op = "isotropic_remesh" /\ pc = "returned") =>
        /\ \A i \in 1..Len(log) :
               log[i] \in RemeshPhases =>
                   i < Len(log) /\ log[i + 1] \in {"check passed", "check failed"}
        /\ \A i \in 1..Len(log) :
               log[i] = "check failed" => i = Len(log) /\ ret = RetFalse

(***************************************************************************)
(* simplify, over SpecSimplify.                                            *)
(***************************************************************************)
LegalCollapse(m) == \E e \in LiveE(m) : collapse_edge(m, e).ret # NIL

\* C12: simplify() on a mesh that has a legal collapse and more edges than the
\* target budget (any budget below its edge count) collapses lowest-cost edges
\* until the budget is reached: it returns with strictly fewer edges and
\* reports success.
C12_SimplifyReduces ==
    (op = "simplify" /\ pc = "returned" /\ LegalCollapse(hist[1])) =>
        NEdges(mesh) < NEdges(hist[1]) /\ ret = RetTrue

\* C13: over consecutive simplify() calls the live edge count never increases
\* from one call to the next, and the priority queue never holds an
\* Edge_Record whose edge has an erased endpoint.
C13_SimplifyMonotone ==
    /\ op = "simplify" => NEdges(mesh) <= NEdges(hist[1])
    /\ \A r \in Runs : \A q \in edge_queue[r] :
           \A v \in Endpoints(mesh, q.edge) : v \in LiveV(mesh)

C13_Witness ==
    /\ op = "simplify" /\ pc = "returned" /\ nops = MaxOps + MaxCalls
    /\ NEdges(mesh) = NEdges(hist[1])
    /\ NEdges(mesh) > 0

(***************************************************************************)
(* split_edge, erase_vertex, collapse_face and flip_edge, over Spec.       *)
(***************************************************************************)
\* the midpoint of the two ends of edge e
Midpoint(m, e) ==
    LET a == HVert(m, EHalf(m, e))
        b == HVert(m, HTwin(m, EHalf(m, e)))
    IN (Pos(m, a) + Pos(m, b)) \div 2

\* the faces around vertex v, one per outgoing half-edge
FacesAround(m, v) ==
    LET out == get_outgoing_halfedges(m, v)
    IN [i \in 1..Len(out) |-> HFace(m, out[i])]

NothingErased(m, m0) ==
    /\ m.verased = m0.verased /\ m.eerased = m0.eerased
    /\ m.ferased = m0.ferased /\ m.herased = m0.herased

\* C14: split_edge(e) on an interior edge between two triangles returns a new
\* vertex at e's midpoint with exactly 4 outgoing half-edges; it adds exactly
\* 1 vertex, 3 edges, 2 faces and 6 half-edges, erases nothing, and the four
\* faces around the new vertex are four different triangles.
C14_SplitEdgeCounts ==
    (pc = "returned" /\ op = "split_edge" /\ FlipCase(hist[1], arg)) =>
        /\ ret \in LiveV(mesh) /\ ret \notin VIds(hist[1])
        /\ Pos(mesh, ret) = Midpoint(hist[1], arg)
        /\ Len(get_outgoing_halfedges(mesh, ret)) = 4
        /\ NVertices(mesh) = NVertices(hist[1]) + 1
        /\ NEdges(mesh) = NEdges(hist[1]) + 3
        /\ NFaces(mesh) = NFaces(hist[1]) + 2
        /\ NHalfedges(mesh) = NHalfedges(hist[1]) + 6
        /\ NothingErased(mesh, hist[1])
        /\ Cardinality(Range(FacesAround(mesh, ret))) = 4
        /\ \A f \in Range(FacesAround(mesh, ret)) :
               num_edges(mesh, f) = 3 /\ ~IsBoundary(mesh, f)

C14_Witness ==
    /\ pc = "returned" /\ op = "split_edge" /\ FlipCase(hist[1], arg)
    /\ ret \in LiveV(mesh)
    /\ NFaces(mesh) = NFaces(hist[1]) + 2
    /\ ok

\* the live edges that end at vertex v
IncidentEdges(m, v) == {e \in LiveE(m) : v \in Endpoints(m, e)}

\* C15: erase_vertex(v) returns none whenever some neighbour of v has 3 or
\* fewer incident edges, the edge to v among them, so that erasing v would
\* leave that neighbour with fewer than 3.
C15_EraseVertexKeepsThree ==
    (/\ pc = "returned" /\ op = "erase_vertex"
     /\ \E n \in Range(get_neighbors(hist[1], arg)) :
           Cardinality(IncidentEdges(hist[1], n)) <= 3) => ret = NIL

(***************************************************************************)
(* The order of the Edge_Records, over SpecQueue.                          *)
(***************************************************************************)
\* C16: the order of Edge_Records is a function of the input alone: records of
\* equal cost are ordered by the edge's identity and not by where the edge is
\* stored, so two runs on the same records pop the same edges in the same
\* order and are left with the same queue.
C16_SamePopOrder ==
    \A r1, r2 \in Runs : popped[r1] = popped[r2] /\ edge_queue[r1] = edge_queue[r2]

\* C17: when collapse_face(f) succeeds on a face of degree n it returns one live
\* vertex; f, its n boundary edges and its n boundary vertices are marked
\* erased; every surviving half-edge that left a boundary vertex of f now leaves
\* the returned vertex; and the mesh passes the Validator.
C17_CollapseFaceMerges ==
    (pc = "returned" /\ op = "collapse_face" /\ ret # NIL) =>
        /\ ret \in LiveV(mesh)
        /\ arg \in mesh.ferased
        /\ Range(Edges(hist[1], get_boundary_halfedges(hist[1], FHalf(hist[1], arg))))
               \subseteq mesh.eerased
        /\ Range(get_vertices(hist[1], arg)) \subseteq mesh.verased
        /\ \A h \in LiveH(mesh) \cap HIds(hist[1]) :
               HVert(hist[1], h) \in Range(get_vertices(hist[1], arg)) => HVert(mesh, h) = ret
        /\ ok

(***************************************************************************)
(* triangulate and the boundary faces, over SpecTri.                       *)
(***************************************************************************)
\* C18: triangulate() never modifies a boundary face: its degree, its
\* half-edge cycle and its representative half-edge are after the call what
\* they were before it, and none of its half-edges belongs to another face.
C18_BoundaryFaceUntouched ==
    (pc = "returned" /\ op = "triangulate") =>
        \A f \in LiveF(hist[1]) :
            IsBoundary(hist[1], f) =>
                /\ f \in LiveF(mesh) /\ IsBoundary(mesh, f)
                /\ FHalf(mesh, f) = FHalf(hist[1], f)
                /\ get_boundary_halfedges(mesh, FHalf(mesh, f))
                       = get_boundary_halfedges(hist[1], FHalf(hist[1], f))
                /\ num_edges(mesh, f) = num_edges(hist[1], f)
                /\ \A h \in LiveH(hist[1]) : HFace(hist[1], h) = f => HFace(mesh, h) = f

(***************************************************************************)
(* More on split_edge and flip_edge, over Spec.                            *)
(***************************************************************************)
\* C19: the representative half-edge of the vertex split_edge(e) returns is a
\* half-edge of the edge e that was split; it is never a half-edge of one of
\* the three edges the split created.
C19_SplitVertexOnSplitEdge ==
    (pc = "returned" /\ op = "split_edge" /\ ret # NIL) =>
        /\ VHalf(mesh, ret) \in LiveH(mesh)
        /\ HEdge(mesh, VHalf(mesh, ret)) = arg
        /\ HEdge(mesh, VHalf(mesh, ret)) \in LiveE(hist[1])

C19_Witness ==
    /\ pc = "returned" /\ op = "split_edge" /\ ret \in LiveV(mesh)
    /\ HEdge(mesh, VHalf(mesh, ret)) = arg
    /\ HVert(mesh, VHalf(mesh, ret)) = ret
    /\ NEdges(mesh) = NEdges(hist[1]) + 3

\* the vertex opposite to half-edge h in its triangle
Opposite(m, h) == HVert(m, HNext(m, HNext(m, h)))

\* the half-edges around the two faces beside edge e
HalfedgesBeside(m, e) ==
    Range(get_boundary_halfedges(m, EHalf(m, e)))
        \cup Range(get_boundary_halfedges(m, HTwin(m, EHalf(m, e))))

\* C20: flip_edge(e) on an interior edge e = (a,b) between the triangles
\* (a,b,c) and (b,a,d), c and d different, returns e, which now joins c and d;
\* a and b each lose one incident edge, c and d each gain one; both faces are
\* still triangles made of the same six half-edges; and no element is created
\* or marked erased.
C20_FlipEdgeRewires ==
    (/\ pc = "returned" /\ op = "flip_edge" /\ FlipCase(hist[1], arg)
     /\ Opposite(hist[1], EHalf(hist[1], arg))
            # Opposite(hist[1], HTwin(hist[1], EHalf(hist[1], arg)))) =>
        /\ ret = arg
        /\ Endpoints(mesh, arg) = {Opposite(hist[1], EHalf(hist[1], arg)),
                                   Opposite(hist[1], HTwin(hist[1], EHalf(hist[1], arg)))}
        /\ \A v \in Endpoints(hist[1], arg) :
               Cardinality(IncidentEdges(mesh, v)) = Cardinality(IncidentEdges(hist[1], v)) - 1
        /\ \A v \in Endpoints(mesh, arg) :
               Cardinality(IncidentEdges(mesh, v)) = Cardinality(IncidentEdges(hist[1], v)) + 1
        /\ \A f \in Range(get_incident_faces(hist[1], arg)) : num_edges(mesh, f) = 3
        /\ Range(get_incident_faces(mesh, arg)) = Range(get_incident_faces(hist[1], arg))
        /\ HalfedgesBeside(mesh, arg) = HalfedgesBeside(hist[1], arg)
        /\ Cardinality(HalfedgesBeside(mesh, arg)) = 6
        /\ HIds(mesh) = HIds(hist[1]) /\ VIds(mesh) = VIds(hist[1])
        /\ EIds(mesh) = EIds(hist[1]) /\ FIds(mesh) = FIds(hist[1])
        /\ NothingErased(mesh, hist[1])
        /\ ok

C20_Witness ==
    /\ pc = "returned" /\ op = "flip_edge" /\ FlipCase(hist[1], arg)
    /\ Cardinality(Endpoints(mesh, arg)) = 2
    /\ Endpoints(mesh, arg) \cap Endpoints(hist[1], arg) = {}
    /\ ret = arg


(***************************************************************************)
(* The split loop of loop_subdivide, over SpecLoop.                        *)
(***************************************************************************)
\* the edge of the mesh at the call whose split created the vertex v: the
\* rounds of Step 3 take the edges in list order and number the vertices
\* they create in the same order
SourceEdge(v) == v - Cardinality(VIds(hist[1]))

\* e was created by a split and joins a mid-edge vertex to a vertex that is not
\* an end of the edge the mid-edge vertex was put on
CrossEdge(e) ==
    /\ e \notin EIds(hist[1])
    /\ \E v \in Endpoints(mesh, e) :
          /\ v \notin VIds(hist[1])
          /\ (Endpoints(mesh, e) \ {v}) \cap Endpoints(hist[1], SourceEdge(v)) = {}

\* C21: the split loop of loop_subdivide runs exactly once per edge the mesh had
\* at the call: round i splits the i-th edge of that list, never an edge a split
\* created, and every round adds one vertex and three edges; no split happens
\* once the flip loop has begun, and the positions of the vertices of the call
\* stay as they were until the flip loop is over, when every position becomes
\* new_pos.  When the split loop ends an edge has is_new set exactly when a
\* split created it and it joins the mid-edge vertex to a vertex opposite the
\* split edge.
C21_SplitPhase ==
    op = "loop_subdivide" =>
        /\ bound = NEdges(hist[1])
        /\ pc = "loop_split" =>
              /\ cnt <= bound
              /\ cnt < bound => it \in LiveE(hist[1]) /\ Cardinality({e \in LiveE(hist[1]) : e < it}) = cnt
              /\ NVertices(mesh) = NVertices(hist[1]) + cnt
              /\ NEdges(mesh) = NEdges(hist[1]) + 3 * cnt
        /\ pc = "loop_flip" =>
              /\ cnt = bound
              /\ NVertices(mesh) = NVertices(hist[1]) + bound
              /\ NEdges(mesh) = NEdges(hist[1]) + 3 * bound
        /\ pc \in {"loop_split", "loop_flip"} =>
              \A v \in LiveV(hist[1]) : Pos(mesh, v) = Pos(hist[1], v)
        /\ pc = "returned" => \A v \in LiveV(mesh) : Pos(mesh, v) = mesh.vnpos[v]
        /\ (pc = "loop_split" /\ cnt = bound) =>
              \A e \in LiveE(mesh) : mesh.enew[e] <=> CrossEdge(e)
C21_Witness ==
    /\ op = "loop_subdivide" /\ pc = "loop_split" /\ cnt = bound /\ bound = 9
    /\ NVertices(mesh) = NVertices(hist[1]) + 9
    /\ \E e \in LiveE(mesh) : mesh.enew[e] /\ Endpoints(mesh, e) \cap VIds(hist[1]) = {}
    /\ \E e \in LiveE(mesh) : mesh.enew[e] /\ Endpoints(mesh, e) \cap VIds(hist[1]) # {}
    /\ \E e \in LiveE(mesh) : ~mesh.enew[e] /\ e \notin EIds(hist[1])
    /\ \A e \in LiveE(mesh) : mesh.enew[e] <=> CrossEdge(e)


\* C22: after loop_subdivide on a closed triangle mesh every vertex the mesh had
\* at the call has the degree it had, every vertex a split created has degree
\* 6, and no edge with is_new set joins a vertex with is_new clear to a vertex
\* with is_new set.
C22_LoopDegrees ==
    (/\ op = "loop_subdivide" /\ pc = "returned"
     /\ Closed(hist[1]) /\ AllTriangles(hist[1])) =>
        /\ \A v \in LiveV(hist[1]) :
              /\ v \in LiveV(mesh)
              /\ VertexDegree(mesh, v) = VertexDegree(hist[1], v)
              /\ Cardinality(IncidentEdges(mesh, v)) = Cardinality(IncidentEdges(hist[1], v))
        /\ \A v \in LiveV(mesh) \ LiveV(hist[1]) :
              VertexDegree(mesh, v) = 6 /\ Cardinality(IncidentEdges(mesh, v)) = 6
        /\ \A e \in LiveE(mesh) :
              mesh.enew[e] => Cardinality({v \in Endpoints(mesh, e) : mesh.vnew[v]}) # 1
C22_Witness ==
    /\ op = "loop_subdivide" /\ pc = "returned"
    /\ Closed(hist[1]) /\ AllTriangles(hist[1]) /\ NVertices(hist[1]) = 6
    /\ NVertices(mesh) = 18
    /\ \E v \in LiveV(hist[1]) : VertexDegree(hist[1], v) = 4 /\ VertexDegree(mesh, v) = 4
    /\ \A v \in LiveV(mesh) \ LiveV(hist[1]) : VertexDegree(mesh, v) = 6 /\ mesh.vnew[v]
    /\ \E e \in LiveE(mesh) : mesh.enew[e] /\ \A v \in Endpoints(mesh, e) : mesh.vnew[v]


(***************************************************************************)
(* erase_edge and collapse_edge on their successful paths, over Spec.      *)
(***************************************************************************)
\* the two faces beside edge e, as a set
FacesBeside(m, e) == Range(get_incident_faces(m, e))

\* C23: when erase_edge(e) succeeds on an edge between two distinct faces of
\* degrees a and b, it returns a face that did not exist before, is live and
\* has degree a + b - 2, and whose cycle is the cycle of the one old face
\* followed by the cycle of the other, the two half-edges of e left out; the
\* elements it erases are exactly e, the two half-edges of e and the two old
\* faces; no vertex is added or erased, and the representative half-edge of
\* either end of e is live and leaves that end.  erase_edge(e) returns none
\* when e is a boundary edge and when an end of e has at most 2 incident edges.
C23_EraseEdgeMerges ==
    (pc = "returned" /\ op = "erase_edge") =>
        /\ (ret # NIL /\ Cardinality(FacesBeside(hist[1], arg)) = 2) =>
              /\ ret \in LiveF(mesh) /\ ret \notin FIds(hist[1])
              /\ num_edges(mesh, ret) =
                     num_edges(hist[1], HFace(hist[1], EHalf(hist[1], arg)))
                   + num_edges(hist[1], HFace(hist[1], HTwin(hist[1], EHalf(hist[1], arg)))) - 2
              /\ get_boundary_halfedges(mesh, FHalf(mesh, ret)) =
                     Tail(get_boundary_halfedges(hist[1], EHalf(hist[1], arg)))
                  \o Tail(get_boundary_halfedges(hist[1], HTwin(hist[1], EHalf(hist[1], arg))))
              /\ \A h \in Range(get_boundary_halfedges(mesh, FHalf(mesh, ret))) :
                     HFace(mesh, h) = ret
              /\ mesh.eerased = hist[1].eerased \cup {arg}
              /\ mesh.herased = hist[1].herased
                     \cup {EHalf(hist[1], arg), HTwin(hist[1], EHalf(hist[1], arg))}
              /\ mesh.ferased = hist[1].ferased \cup FacesBeside(hist[1], arg)
              /\ mesh.verased = hist[1].verased
              /\ VIds(mesh) = VIds(hist[1])
              /\ NVertices(mesh) = NVertices(hist[1])
              /\ \A v \in Endpoints(hist[1], arg) :
                     VHalf(mesh, v) \in LiveH(mesh) /\ HVert(mesh, VHalf(mesh, v)) = v
        /\ (\/ on_boundary_e(hist[1], arg)
            \/ \E v \in Endpoints(hist[1], arg) :
                  Cardinality(IncidentEdges(hist[1], v)) <= 2) => ret = NIL
C23_Witness ==
    /\ pc = "returned" /\ op = "erase_edge" /\ ret \in LiveF(mesh)
    /\ Cardinality(FacesBeside(hist[1], arg)) = 2
    /\ num_edges(mesh, ret) = 4
    /\ NFaces(mesh) = NFaces(hist[1]) - 1 /\ NEdges(mesh) = NEdges(hist[1]) - 1
    /\ ok


\* the vertices joined to an end of edge e, the ends themselves left out
NeighborsOfEnds(m, e) ==
    UNION {Range(get_neighbors(m, v)) : v \in Endpoints(m, e)} \ Endpoints(m, e)

\* C24: when collapse_edge(e) succeeds on an interior edge between two
\* triangles, it returns a vertex that did not exist before, is live, lies at
\* the midpoint of e and has as neighbours exactly the former neighbours of the
\* two ends of e other than those ends; the mesh has 1 vertex, 3 edges, 2 faces
\* and 6 half-edges less, and the two ends of e, e itself and the two triangles
\* are marked erased.
C24_CollapseEdgeMerges ==
    (pc = "returned" /\ op = "collapse_edge" /\ ret # NIL /\ FlipCase(hist[1], arg)) =>
        /\ ret \in LiveV(mesh) /\ ret \notin VIds(hist[1])
        /\ Pos(mesh, ret) = Midpoint(hist[1], arg)
        /\ Range(get_neighbors(mesh, ret)) = NeighborsOfEnds(hist[1], arg)
        /\ NVertices(mesh) = NVertices(hist[1]) - 1
        /\ NEdges(mesh) = NEdges(hist[1]) - 3
        /\ NFaces(mesh) = NFaces(hist[1]) - 2
        /\ NHalfedges(mesh) = NHalfedges(hist[1]) - 6
        /\ Endpoints(hist[1], arg) \subseteq mesh.verased
        /\ arg \in mesh.eerased
        /\ FacesBeside(hist[1], arg) \subseteq mesh.ferased
C24_Witness ==
    /\ pc = "returned" /\ op = "collapse_edge" /\ ret \in LiveV(mesh)
    /\ FlipCase(hist[1], arg)
    /\ NVertices(hist[1]) = 6 /\ NVertices(mesh) = 5 /\ NFaces(mesh) = 6
    /\ Cardinality(NeighborsOfEnds(hist[1], arg)) = 4
    /\ Range(get_neighbors(mesh, ret)) = NeighborsOfEnds(hist[1], arg)
    /\ ok


(***************************************************************************)
(* PQueue, over SpecQueue.                                                 *)
(***************************************************************************)
\* the item of Q that is less than every other item of Q, under the order of
\* the records with the placement a
IsLeast(q, Q, a) == q \in Q /\ \A p \in Q \ {q} : EdgeRecordLess(q, p, a)

\* what one step does to the queue of run r: an insert adds its item unless the
\* queue holds it, a remove takes its item out if the queue holds it, a pop
\* takes the least item out and hands out its edge, size() answers the
\* number of items held and changes nothing
PQueueStep(r) ==
    \/ /\ popped'[r] = popped[r] /\ ret' = ret
       /\ \E item \in Records :
             /\ edge_queue'[r] = edge_queue[r] \cup {item}
             /\ QueueSize(edge_queue'[r]) =
                    QueueSize(edge_queue[r]) + (IF item \in edge_queue[r] THEN 0 ELSE 1)
    \/ /\ popped'[r] = popped[r] /\ ret' = ret
       /\ \E item \in Records :
             /\ edge_queue'[r] = edge_queue[r] \ {item}
             /\ QueueSize(edge_queue'[r]) =
                    QueueSize(edge_queue[r]) - (IF item \in edge_queue[r] THEN 1 ELSE 0)
    \/ /\ ret' = ret
       /\ \E q \in edge_queue[r] :
             /\ IsLeast(q, edge_queue[r], addr[r])
             /\ popped'[r] = Append(popped[r], q.edge)
             /\ edge_queue'[r] = edge_queue[r] \ {q}
             /\ QueueSize(edge_queue'[r]) = QueueSize(edge_queue[r]) - 1
    \/ /\ popped'[r] = popped[r] /\ edge_queue'[r] = edge_queue[r]
       /\ ret' = Cardinality(edge_queue[1])

\* C25: for any sequence of insert, remove and pop (pop and top only on a queue
\* that is not empty), top() is the least item, under the order by cost and
\* then by the tie-break, among the items inserted and neither removed nor
\* popped since, and pop() removes exactly that item; remove(x) of an item the
\* queue does not hold and insert(x) of an item it holds leave the queue as it
\* was; size() is the number of items held.
C25_QueueSteps == [][\A r \in Runs : PQueueStep(r)]_vars
C25_Witness ==
    /\ pc = "queue" /\ Len(popped[1]) = 2 /\ ret = 3
    /\ QueueSize(edge_queue[1]) = 2
    /\ \E q \in edge_queue[1] : \E p \in edge_queue[1] : p.cost = q.cost /\ p.edge # q.edge


(***************************************************************************)
(* The rounds of isotropic_remesh, over SpecRemesh.                        *)
(***************************************************************************)
\* the number of times the phase ended during the running call
PhaseRuns(phase) == Cardinality({i \in 1..Len(log) : log[i] = phase})

\* C26: a call of isotropic_remesh that returns true has run split, collapse,
\* flip and smoothing, in that order, for a fixed number of rounds greater than
\* one (5 or 6), and not only once.
C26_RemeshRounds ==
    (op = "isotropic_remesh" /\ pc = "returned" /\ ret = RetTrue) =>
        /\ PhaseRuns("smooth") \in {5, 6}
        /\ \A phase \in RemeshPhases : PhaseRuns(phase) = PhaseRuns("smooth")


(***************************************************************************)
(* The bevel operators, over SpecFlipped.                                  *)
(***************************************************************************)
\* the number of outgoing half-edges of vertex v
OutDegree(m, v) == Len(get_outgoing_halfedges(m, v))

\* the face that a bevel returned: a live face the call created, bounded by k
\* different vertices, every one of them live and created by the call
BevelledFace(k) ==
    /\ ret \in LiveF(mesh) /\ ret \notin FIds(hist[1])
    /\ num_edges(mesh, ret) = k
    /\ Cardinality(Range(get_vertices(mesh, ret))) = k
    /\ Range(get_vertices(mesh, ret)) \subseteq LiveV(mesh) \ VIds(hist[1])
    /\ LiveV(mesh) \ VIds(hist[1]) \subseteq Range(get_vertices(mesh, ret))

\* the vertices of the call that the vertex w of the returned face stands for:
\* those whose half-edges w took over, or, when w took none over, those the
\* call joined w to
Replaced(w) ==
    IF \E h \in LiveH(hist[1]) : HVert(mesh, h) = w
    THEN {HVert(hist[1], h) : h \in {g \in LiveH(hist[1]) : HVert(mesh, g) = w}}
    ELSE Range(get_neighbors(mesh, w)) \cap VIds(hist[1])

\* every vertex of the returned face stands for one vertex among olds and lies
\* where that vertex lay
BevelledPositions(olds) ==
    \A w \in Range(get_vertices(mesh, ret)) :
        /\ Cardinality(Replaced(w)) = 1
        /\ \A u \in Replaced(w) : u \in olds /\ Pos(mesh, w) = Pos(hist[1], u)

\* no live element refers to a vertex of vs, an edge of es, a face of fs or a
\* half-edge of hs
Unreferenced(vs, es, fs, hs) ==
    /\ \A h \in LiveH(mesh) :
          /\ HVert(mesh, h) \notin vs /\ HEdge(mesh, h) \notin es
          /\ HFace(mesh, h) \notin fs
          /\ HNext(mesh, h) \notin hs /\ HTwin(mesh, h) \notin hs
    /\ \A v \in LiveV(mesh) : VHalf(mesh, v) \notin hs
    /\ \A e \in LiveE(mesh) : EHalf(mesh, e) \notin hs
    /\ \A f \in LiveF(mesh) : FHalf(mesh, f) \notin hs

\* the two half-edges of edge e
HalfedgesOf(m, e) == {EHalf(m, e), HTwin(m, EHalf(m, e))}

\* C27: bevel_vertex(v), bevel_edge(e) and bevel_face(f) return a live face the
\* call created, bounded by vertices the call created and by no others, k of
\* them: the number of outgoing half-edges of v; that of the one end of e plus
\* that of the other minus 2; the degree of f.  Every new vertex lies where the
\* vertex it replaces lay.  The bevelled element (v; e, its two ends and its two
\* half-edges; f) is marked erased and no live element refers to it.
C27_BevelMakesFace ==
    /\ (pc = "returned" /\ op = "bevel_vertex") =>
          /\ BevelledFace(OutDegree(hist[1], arg))
          /\ BevelledPositions({arg})
          /\ arg \in mesh.verased
          /\ Unreferenced({arg}, {}, {}, {})
    /\ (pc = "returned" /\ op = "bevel_edge") =>
          /\ BevelledFace(OutDegree(hist[1], HVert(hist[1], EHalf(hist[1], arg)))
                        + OutDegree(hist[1], HVert(hist[1], HTwin(hist[1], EHalf(hist[1], arg))))
                        - 2)
          /\ BevelledPositions(Endpoints(hist[1], arg))
          /\ arg \in mesh.eerased
          /\ Endpoints(hist[1], arg) \subseteq mesh.verased
          /\ HalfedgesOf(hist[1], arg) \subseteq mesh.herased
          /\ Unreferenced(Endpoints(hist[1], arg), {arg}, {}, HalfedgesOf(hist[1], arg))
    /\ (pc = "returned" /\ op = "bevel_face") =>
          /\ BevelledFace(num_edges(hist[1], arg))
          /\ BevelledPositions(Range(get_vertices(hist[1], arg)))
          /\ arg \in mesh.ferased
          /\ Unreferenced({}, {}, {arg}, {})


(***************************************************************************)
(* The Euler characteristic, over SpecFlipped.                             *)
(***************************************************************************)
\* V - E + F over the live elements, boundary faces included
Euler(m) == NVertices(m) - NEdges(m) + NFaces(m)

\* the calls C28 speaks of: a local operator that returned a value, erase_edge
\* only between two distinct faces and split_edge only between two triangles
EulerCase ==
    /\ pc = "returned" /\ ret # NIL
    /\ op \in {"erase_vertex", "erase_edge", "collapse_edge", "flip_edge", "split_edge",
               "bevel_vertex", "bevel_edge", "bevel_face"}
    /\ op = "erase_edge" => Cardinality(FacesBeside(hist[1], arg)) = 2
    /\ op = "split_edge" => FlipCase(hist[1], arg)

\* C28: V - E + F, counted over the live vertices, edges and faces with the
\* boundary faces, is the same after a successful erase_vertex, erase_edge
\* (between two distinct faces), collapse_edge, flip_edge, split_edge (between
\* two triangles), bevel_vertex, bevel_edge, bevel_face and after triangulate
\* as before the call.
C28_EulerKept ==
    (EulerCase \/ (pc = "returned" /\ op = "triangulate")) => Euler(mesh) = Euler(hist[1])


(***************************************************************************)
(* The iterators of the collapse loop of isotropic_remesh, over SpecRemesh.*)
(***************************************************************************)
\* C29: in the collapse loop of isotropic_remesh, whichever edges are short,
\* the iterator e designates a live edge of the edge list as long as the
\* counter is below its bound, and the look-ahead iterator next is never read
\* when it is end(), the case of the collapsed edge being the last of the list
\* included.
C29_CollapseIteratorsSafe ==
    op = "isotropic_remesh" =>
        /\ (pc = "collapse" /\ cnt < bound) => it \in LiveE(mesh)
        /\ ~derefEnd
        /\ pc # "crashed"


\* the boundary faces beside edge e
BoundaryFacesBeside(m, e) == {f \in FacesBeside(m, e) : IsBoundary(m, f)}

\* the representative half-edge of face f is live and the walk along next from
\* it comes back to it over live half-edges of f
RepOnCycle(m, f) ==
    /\ FHalf(m, f) \in LiveH(m)
    /\ HNext(m, get_boundary_halfedges(m, FHalf(m, f))[
                    Len(get_boundary_halfedges(m, FHalf(m, f)))]) = FHalf(m, f)
    /\ \A h \in Range(get_boundary_halfedges(m, FHalf(m, f))) :
          h \in LiveH(m) /\ HFace(m, h) = f

\* collapse_edge returned a vertex for an edge beside a boundary face
BoundaryCollapse ==
    /\ pc = "returned" /\ op = "collapse_edge" /\ ret # NIL
    /\ BoundaryFacesBeside(hist[1], arg) # {}

\* C30: after collapse_edge returns a vertex for an edge beside a boundary
\* face, the representative half-edge of that boundary face is live and lies on
\* the face's cycle of next, and no next of a live half-edge, no live vertex
\* and no live face refers to one of the two half-edges of the collapsed edge.
C30_BoundaryCollapseRefs ==
    BoundaryCollapse =>
        /\ \A b \in BoundaryFacesBeside(hist[1], arg) : RepOnCycle(mesh, b)
        /\ \A h \in LiveH(mesh) : HNext(mesh, h) \notin HalfedgesOf(hist[1], arg)
        /\ \A v \in LiveV(mesh) : VHalf(mesh, v) \notin HalfedgesOf(hist[1], arg)
        /\ \A f \in LiveF(mesh) : FHalf(mesh, f) \notin HalfedgesOf(hist[1], arg)

====
